---- MODULE Spec2Model ----
(***************************************************************************)
(* Model of projectq.cengines.LocalOptimizer (src/projectq/cengines/       *)
(* _optimize.py): the per-qubit command pipelines self._l, the peephole    *)
(* pass _optimize, the cross-pipeline edits _delete_command and            *)
(* _replace_command, the recursive drain _send_qubit_pipeline and the      *)
(* entry point receive.  Positions are 0-based as in the source.  The      *)
(* gate and command classes of projectq.ops are collaborators; they are    *)
(* modelled by a small gate vocabulary with the capabilities the optimizer *)
(* calls.                                                                  *)
(***************************************************************************)
EXTENDS Integers, Sequences, FiniteSets, TLC

VARIABLES
    l,      \* self._l: qubit id -> list of cached commands
    keys,   \* the keys of the dict self._l, in insertion (= iteration) order
    m,      \* self._m: the window size
    out,    \* history: every command handed to self.send, in order
    gone,   \* history: the commands removed by _delete_command / _replace_command
    edits,  \* history: the edits _optimize made, each with the commutation
            \* gate as it stood when the edit was decided
    drains, \* history: the calls of _send_qubit_pipeline that returned
    muts,   \* history: the calls of _delete_command and _replace_command
            \* that returned, each with self._l before and after
    opts,   \* history: the calls of _optimize that returned
    searches, \* history: the searches of _optimize for a commutable list
    scan,   \* the call of _optimize that is followed pass by pass: its
            \* arguments, its local variables and where it stands
    backend, \* the PasqalBackend: its fields, and the jobs it has submitted
    pq,     \* the call of the Pasqal HTTP client under way: its arguments,
            \* the session, the job on the server and where the call stands
    rxx,    \* history: what _recognize_rxx answered for a command
    inp,    \* history: the commands receive() has been given
    exc,    \* "none", or the exception that escaped receive()
    log,    \* number of "Invalid qubit pipeline" diagnostics printed
    order,  \* iteration order of the set returned by get_commutable_gate_lists
    ab,     \* which command alphabet the producer draws from
    depth   \* how many commands the producer delivers

vars ==
    <<l, keys, m, out, gone, edits, drains, muts, opts, searches, scan, pq,
      rxx, inp, exc, log, order, ab, depth, backend>>

-----------------------------------------------------------------------------
(* Bounds of the model *)

\* number of commands (flush commands included) the producer delivers
MaxCmds == 5

Qubits == {0, 1, 2}

\* the recursion limit of the interpreter, counted in nested calls of
\* _send_qubit_pipeline
MaxNesting == 6

-----------------------------------------------------------------------------
(* Python list helpers, 0-based *)

At(q, i) == q[i + 1]

InRange(q, i) == i >= 0 /\ i < Len(q)

\* q[0:c] + q[c+1:]
RemoveAt(q, c) == [p \in 1..(Len(q) - 1) |-> IF p <= c THEN q[p] ELSE q[p + 1]]

\* a faulty replacement: the new entry is put at the end of the list
SetAtEnd(q, c, new) == Append(RemoveAt(q, c), new)

\* q[0:c] + [new] + q[c+1:]
SetAt(q, c, new) == [p \in 1..Len(q) |-> IF p = c + 1 THEN new ELSE q[p]]

\* a faulty trim: q[n-1:], which keeps the last entry that was sent
SliceFromLate(q, n) ==
    IF n <= 1 THEN q
    ELSE (IF n - 1 >= Len(q) THEN <<>> ELSE SubSeq(q, n, Len(q)))

\* q[n:], with Python's reading of a negative n
SliceFrom(q, n) ==
    IF n >= 0
    THEN (IF n >= Len(q) THEN <<>> ELSE SubSeq(q, n + 1, Len(q)))
    ELSE (IF -n >= Len(q) THEN q ELSE SubSeq(q, Len(q) + n + 1, Len(q)))

MinOf(a, b) == IF a < b THEN a ELSE b

RECURSIVE Flatten(_)
Flatten(groups) ==
    IF groups = <<>> THEN <<>> ELSE Head(groups) \o Flatten(Tail(groups))

SeqToSet(q) == {q[p] : p \in 1..Len(q)}

-----------------------------------------------------------------------------
(* The gate capability interface *)

NO == 0
YES == 1
LIST == 2

AngleMod == 3

Gate(kind, angle) == [kind |-> kind, angle |-> angle]

XGate == Gate("X", 0)
HGate == Gate("H", 0)
ZGate == Gate("Z", 0)
Rz(a) == Gate("Rz", a % AngleMod)
Measure == Gate("Measure", 0)
NoInv == Gate("NoInv", 0)
FlushGate == Gate("Flush", 0)

GateIsIdentity(g) == g.kind = "Rz" /\ g.angle = 0

GateHasInverse(g) == g.kind \in {"X", "H", "Z", "Rz"}

GateInverse(g) ==
    IF g.kind = "Rz" THEN Rz(AngleMod - g.angle) ELSE g

GateMergeable(g, h) == g.kind = "Rz" /\ h.kind = "Rz"

GateMerged(g, h) == Rz(g.angle + h.angle)

GateIsCommutable(g, h) ==
    CASE g.kind = "X" /\ h.kind = "X" -> YES
      [] g.kind \in {"Rz", "Z"} /\ h.kind \in {"Rz", "Z"} -> YES
      [] g.kind \in {"X", "Z"} /\ h.kind = "H" -> LIST
      [] OTHER -> NO

\* get_commutable_gate_lists: a set of sequences of gate kinds; ord is the
\* order in which iterating the set yields them
GetCommutableGateLists(g, ord) ==
    CASE g.kind = "Z" ->
            IF ord = 1 THEN << <<"H", "H">>, <<"H", "X", "H">> >>
                       ELSE << <<"H", "X", "H">>, <<"H", "H">> >>
      [] g.kind = "X" -> << <<"H", "Rz", "H">> >>
      [] OTHER -> <<>>

IsFastForwarding(g) == g.kind \in {"Measure", "Flush"}

-----------------------------------------------------------------------------
(* Commands *)

\* src is history only: the arrival numbers of the ingested commands this
\* command object stands for.  No operation of the optimizer reads it.
Command(gate, all_qubits, src) ==
    [gate |-> gate, all_qubits |-> all_qubits, src |-> src]

QubitIds(cmd) == Flatten(cmd.all_qubits)

\* Command.__eq__
CmdEq(a, b) == a.gate = b.gate /\ a.all_qubits = b.all_qubits

CmdIsIdentity(cmd) == GateIsIdentity(cmd.gate)

CmdHasInverse(cmd) == GateHasInverse(cmd.gate)

CmdInverse(cmd) == Command(GateInverse(cmd.gate), cmd.all_qubits, {})

CmdMergeable(a, b) ==
    a.all_qubits = b.all_qubits /\ GateMergeable(a.gate, b.gate)

CmdMerged(a, b) ==
    Command(GateMerged(a.gate, b.gate), a.all_qubits, a.src \cup b.src)

CmdIsCommutable(a, b) == GateIsCommutable(a.gate, b.gate)

-----------------------------------------------------------------------------
(* The optimizer's state while a call of receive() runs.  st is a record   *)
(* [l, keys, out, gone, edits, drains, muts, opts, searches, exc, log,      *)
(* order, calls, sends, active]; exc # "none" means an exception is        *)
(* propagating and every enclosing step passes the state on unchanged.     *)
(* gone, edits, drains, muts, opts and searches are history and are never  *)
(* read by the operations; active lists the qubits whose                   *)
(* _send_qubit_pipeline is running, outermost first; calls counts the      *)
(* calls of                                                                *)
(* _send_qubit_pipeline entered during this receive() and sends records    *)
(* which of them sent each command.                                        *)

Raise(st, e) == [st EXCEPT !.exc = e]

HasKey(st, id) == id \in SeqToSet(st.keys)

\* a count that never skips an earlier instance
NoneToSkip(q, i, cmd) == 0

\* number of commands before position i of q that are == cmd
NumIdenticalBefore(q, i, cmd) ==
    Cardinality({p \in 0..(i - 1) : CmdEq(At(q, p), cmd)})

\* identical_indices[skip], as a set: empty when the index is out of range
IdenticalIndex(q, cmd, skip) ==
    {p \in 0..(Len(q) - 1) :
        CmdEq(At(q, p), cmd) /\ NumIdenticalBefore(q, p, cmd) = skip}

\* first position j of IDs whose lookup fails, 0 if none
FirstBadId(st, IDs, cmd, skip) ==
    LET bad == {j \in 1..Len(IDs) :
                   \/ ~HasKey(st, IDs[j])
                   \/ IdenticalIndex(st.l[IDs[j]], cmd, skip) = {}}
    IN IF bad = {} THEN 0 ELSE CHOOSE j \in bad : \A k \in bad : j <= k

\* _get_gate_indices: [exc, idcs]
GetGateIndices(st, idx, i, IDs) ==
    IF Len(IDs) = 1 THEN [exc |-> "none", idcs |-> <<i>>]
    ELSE
        LET cmd == At(st.l[idx], i)
            num_identical_to_skip == NumIdenticalBefore(st.l[idx], i, cmd)
            bad == FirstBadId(st, IDs, cmd, num_identical_to_skip)
        IN IF bad # 0
           THEN [exc |-> IF HasKey(st, IDs[bad]) THEN "IndexError"
                                                 ELSE "KeyError",
                 idcs |-> <<>>]
           ELSE [exc |-> "none",
                 idcs |-> [j \in 1..Len(IDs) |->
                             CHOOSE p \in IdenticalIndex(st.l[IDs[j]], cmd,
                                              num_identical_to_skip) : TRUE]]

\* the loop "for j in range(len(qubitids)): self._l[qubitids[j]] = new_list"
\* of _delete_command
RECURSIVE DeleteLoop(_, _, _, _)
DeleteLoop(lq, qubitids, commandidcs, j) ==
    IF j > Len(qubitids) THEN lq
    ELSE DeleteLoop(
            [lq EXCEPT ![qubitids[j]] = RemoveAt(@, commandidcs[j])],
            qubitids, commandidcs, j + 1)

\* the same loop of _replace_command
RECURSIVE ReplaceLoop(_, _, _, _, _)
ReplaceLoop(lq, qubitids, commandidcs, j, new_command) ==
    IF j > Len(qubitids) THEN lq
    ELSE ReplaceLoop(
            [lq EXCEPT ![qubitids[j]] = SetAt(@, commandidcs[j], new_command)],
            qubitids, commandidcs, j + 1, new_command)

\* what a call of _delete_command or _replace_command did to self._l
Mutated(op, st, idx, command_idx, new_command, after) ==
    [op |-> op, idx |-> idx, pos |-> command_idx,
     cmd |-> At(st.l[idx], command_idx), new |-> new_command,
     before |-> st.l, after |-> after]

\* a deletion that forgets the lists of the other qubits
DeleteOnIdxOnly(st, idx, command_idx) ==
    IF st.exc # "none" THEN st
    ELSE IF ~InRange(st.l[idx], command_idx) THEN Raise(st, "IndexError")
    ELSE [st EXCEPT
             !.l[idx] = RemoveAt(@, command_idx),
             !.gone = Append(@, At(st.l[idx], command_idx)),
             !.muts = Append(@,
                 Mutated("delete", st, idx, command_idx,
                         At(st.l[idx], command_idx),
                         [st.l EXCEPT ![idx] = RemoveAt(@, command_idx)]))]

\* _delete_command
DeleteCommand(st, idx, command_idx) ==
    IF st.exc # "none" THEN st
    ELSE IF ~InRange(st.l[idx], command_idx) THEN Raise(st, "IndexError")
    ELSE
        LET cmd == At(st.l[idx], command_idx)
            qubitids == QubitIds(cmd)
            r == GetGateIndices(st, idx, command_idx, qubitids)
        IN IF r.exc # "none" THEN Raise(st, r.exc)
           ELSE [st EXCEPT
                    !.l = DeleteLoop(st.l, qubitids, r.idcs, 1),
                    !.gone = Append(@, cmd),
                    !.muts = Append(@,
                        Mutated("delete", st, idx, command_idx, cmd,
                                DeleteLoop(st.l, qubitids, r.idcs, 1)))]

\* a replacement that forgets the lists of the other qubits
ReplaceOnIdxOnly(st, idx, command_idx, new_command) ==
    IF st.exc # "none" THEN st
    ELSE IF ~InRange(st.l[idx], command_idx) THEN Raise(st, "IndexError")
    ELSE [st EXCEPT
             !.l[idx] = SetAt(@, command_idx, new_command),
             !.gone = Append(@, At(st.l[idx], command_idx)),
             !.muts = Append(@,
                 Mutated("replace", st, idx, command_idx, new_command,
                         [st.l EXCEPT
                             ![idx] = SetAt(@, command_idx, new_command)]))]

\* _replace_command
ReplaceCommand(st, idx, command_idx, new_command) ==
    IF st.exc # "none" THEN st
    ELSE IF ~InRange(st.l[idx], command_idx) THEN Raise(st, "IndexError")
    ELSE
        LET cmd == At(st.l[idx], command_idx)
            qubitids == QubitIds(cmd)
            r == GetGateIndices(st, idx, command_idx, qubitids)
        IN IF r.exc # "none" THEN Raise(st, r.exc)
           ELSE [st EXCEPT
                    !.l = ReplaceLoop(st.l, qubitids, r.idcs, 1, new_command),
                    !.gone = Append(@, cmd),
                    !.muts = Append(@,
                        Mutated("replace", st, idx, command_idx, new_command,
                                ReplaceLoop(st.l, qubitids, r.idcs, 1,
                                            new_command)))]

\* qubitids.remove(idx) / commandidcs.pop(qubitids.index(idx)): the
\* positions of qubitids that stay
OtherPositions(qubitids, idx) ==
    LET first == CHOOSE j \in 1..Len(qubitids) :
                    qubitids[j] = idx /\ \A k \in 1..(j - 1) : qubitids[k] # idx
    IN [p \in 1..(Len(qubitids) - 1) |-> IF p < first THEN p ELSE p + 1]

\* _get_erase: [exc, val].  x is set once, before the loop over the qubits,
\* and erase is overwritten by every later qubit that finds a commuting gate.
RECURSIVE GetEraseLoop(_, _, _, _, _, _, _)
GetEraseLoop(st, qubitids, commandidcs, inverse_command, j, x, erase) ==
    IF j > Len(qubitids) THEN [exc |-> "none", val |-> erase]
    ELSE
        LET q == st.l[qubitids[j]]
            this_command == At(q, commandidcs[j])
        IN IF ~InRange(q, commandidcs[j] + x)
           THEN [exc |-> "IndexError", val |-> FALSE]
           ELSE
               LET future_command == At(q, commandidcs[j] + x)
               IN IF CmdEq(future_command, inverse_command)
                  THEN GetEraseLoop(st, qubitids, commandidcs,
                                    inverse_command, j + 1, x, erase)
                  ELSE IF CmdIsCommutable(this_command, future_command) # NO
                  THEN GetEraseLoop(st, qubitids, commandidcs,
                                    inverse_command, j, x + 1, TRUE)
                  ELSE GetEraseLoop(st, qubitids, commandidcs,
                                    inverse_command, j + 1, x, FALSE)

GetErase(st, idx, qubitids, commandidcs, inverse_command) ==
    LET keep == OtherPositions(qubitids, idx)
        qs == [p \in 1..Len(keep) |-> qubitids[keep[p]]]
        cs == [p \in 1..Len(keep) |-> commandidcs[keep[p]]]
    IN GetEraseLoop(st, qs, cs, inverse_command, 1, 1, TRUE)

\* _get_merge_boolean: [exc, val].  merge and x are reset for every qubit,
\* so the value returned is the one of the last qubit examined.
RECURSIVE GetMergeLoop(_, _, _, _, _, _, _)
GetMergeLoop(st, qubitids, commandidcs, merged_command, j, x, merge) ==
    IF j > Len(qubitids) THEN [exc |-> "none", val |-> merge]
    ELSE
        LET q == st.l[qubitids[j]]
            this_command == At(q, commandidcs[j])
        IN IF ~InRange(q, commandidcs[j] + x)
           THEN [exc |-> "IndexError", val |-> FALSE]
           ELSE
               LET future_command == At(q, commandidcs[j] + x)
               IN IF /\ CmdMergeable(this_command, future_command)
                     /\ CmdEq(CmdMerged(this_command, future_command),
                              merged_command)
                  THEN GetMergeLoop(st, qubitids, commandidcs,
                                    merged_command, j + 1, 1, TRUE)
                  ELSE IF CmdIsCommutable(this_command, future_command) = YES
                  THEN GetMergeLoop(st, qubitids, commandidcs,
                                    merged_command, j, x + 1, TRUE)
                  ELSE GetMergeLoop(st, qubitids, commandidcs,
                                    merged_command, j + 1, 1, FALSE)

GetMergeBoolean(st, idx, qubitids, commandidcs, merged_command) ==
    LET keep == OtherPositions(qubitids, idx)
        qs == [p \in 1..Len(keep) |-> qubitids[keep[p]]]
        cs == [p \in 1..Len(keep) |-> commandidcs[keep[p]]]
    IN GetMergeLoop(st, qs, cs, merged_command, 1, 1, TRUE)

-----------------------------------------------------------------------------
(* The commutation gate, as a property of the pipelines: what has to hold  *)
(* between two commands for an edit of the pair to be sound.               *)

\* the commands of q strictly between positions a and b
Between(q, a, b) == [p \in 1..(b - a - 1) |-> At(q, a + p)]

KindsOf(cmds) == [p \in 1..Len(cmds) |-> cmds[p].gate.kind]

IsPrefix(lst, kinds) ==
    Len(lst) <= Len(kinds) /\ \A p \in 1..Len(lst) : lst[p] = kinds[p]

\* every command of cmds commutes with cmd, directly or as part of a fully
\* matched registered sequence (withLists), or directly only
RECURSIVE Commutes(_, _, _)
Commutes(cmd, cmds, withLists) ==
    \/ cmds = <<>>
    \/ /\ cmds # <<>>
       /\ CmdIsCommutable(cmd, cmds[1]) = YES
       /\ Commutes(cmd, Tail(cmds), withLists)
    \/ /\ withLists
       /\ \E lst \in SeqToSet(GetCommutableGateLists(cmd.gate, 1)) :
             /\ IsPrefix(lst, KindsOf(cmds))
             /\ Commutes(cmd, SubSeq(cmds, Len(lst) + 1, Len(cmds)),
                         withLists)

\* positions in q of the command objects a and b (by arrival numbers)
PosOf(q, cmd) == {p \in 0..(Len(q) - 1) : At(q, p).src = cmd.src}

\* the gate between the command objects a and b on every qubit a touches
CommutationGate(lq, a, b, withLists) ==
    \A id \in SeqToSet(QubitIds(a)) :
        \A pa \in PosOf(lq[id], a) : \A pb \in PosOf(lq[id], b) :
            /\ pa < pb
            /\ Commutes(a, Between(lq[id], pa, pb), withLists)

\* over: the offset x of the partner, the number of commands of the scanned
\* pipeline the search stepped over
EraseEdit(st, a, b, x, idx, i) ==
    [op |-> "erase", a |-> a, b |-> b, new |-> a, over |-> x,
     clean |-> CommutationGate(st.l, a, b, TRUE),
     idx |-> idx, i |-> i, q |-> st.l[idx]]

MergeEdit(st, a, b, new, x, idx, i) ==
    [op |-> "merge", a |-> a, b |-> b, new |-> new, over |-> x,
     clean |-> CommutationGate(st.l, a, b, FALSE),
     idx |-> idx, i |-> i, q |-> st.l[idx]]

IdentityEdit(st, a, idx, i) ==
    [op |-> "identity", a |-> a, b |-> a, new |-> a, over |-> 0,
     clean |-> TRUE, idx |-> idx, i |-> i, q |-> st.l[idx]]

Note(st, edit) ==
    IF st.exc # "none" THEN st ELSE [st EXCEPT !.edits = Append(@, edit)]

-----------------------------------------------------------------------------
(* _optimize *)

KindOf(cmd) == cmd.gate.kind

\* lines 309-311: the candidate lists that start with the kind of the gate
\* at i+x+1
StartingLists(lists, kind) ==
    LET Starts(gate_list) == gate_list[1] = kind
    IN SelectSeq(lists, Starts)

\* lines 315-336, the loop "while len(commutable_lists) > 0" with its inner
\* "for l in commutable_lists": k is the position of l in commutable_lists,
\* y is shared by all candidates.  MatchStep is one iteration of the for
\* loop, or the return to the while when the for loop has run out; when it
\* is done, x grows by adv and i_x_com becomes com.
MatchStep(q, base, commutable_lists, k, y) ==
    LET lst == commutable_lists[k]
        Done(e, adv, com) ==
            [done |-> TRUE, exc |-> e, adv |-> adv, com |-> com,
             k |-> k, y |-> y]
    IN IF Len(commutable_lists) = 0 THEN Done("none", 0, FALSE)
       ELSE IF k > Len(commutable_lists)
       THEN [Done("none", 0, FALSE) EXCEPT !.done = FALSE, !.k = 1]
       ELSE IF y > Len(lst) - 1 THEN Done("none", Len(lst), TRUE)
       ELSE IF ~InRange(q, base + y) THEN Done("IndexError", 0, FALSE)
       ELSE IF lst[y + 1] = KindOf(At(q, base + y))
       THEN [Done("none", 0, FALSE) EXCEPT
                !.done = FALSE, !.k = k + 1, !.y = y + 1]
       \* commutable_lists.pop(l): pop takes an integer
       ELSE Done("TypeError", 0, FALSE)

\* the result is [exc, adv, com]
RECURSIVE MatchLists(_, _, _, _, _)

MatchNext(r, q, base, commutable_lists) ==
    IF r.done THEN [exc |-> r.exc, adv |-> r.adv, com |-> r.com]
    ELSE MatchLists(q, base, commutable_lists, r.k, r.y)

MatchLists(q, base, commutable_lists, k, y) ==
    MatchNext(MatchStep(q, base, commutable_lists, k, y),
              q, base, commutable_lists)

\* F applied to what the statement before it left: v is evaluated once
Then(v, F(_)) == CHOOSE r \in {F(s) : s \in {v}} : TRUE

\* lines 277-292, the body of the try block, for the pair at i and i+x+1.
\* The result is [st, merged]; get_merged is the first call of the block, so
\* NotMergeable leaves the pipelines as they were.
MergeAttempt(st, idx, i, x) ==
    LET q == st.l[idx]
        command_i == At(q, i)
        partner == At(q, i + x + 1)
        merged_command == CmdMerged(command_i, partner)
        qubitids == QubitIds(command_i)
        gi == GetGateIndices(st, idx, i, qubitids)
        mb == GetMergeBoolean(st, idx, qubitids, gi.idcs, merged_command)
    IN IF ~CmdMergeable(command_i, partner)
       THEN [st |-> Raise(st, "NotMergeable"), merged |-> FALSE]
       ELSE IF gi.exc # "none"
       THEN [st |-> Raise(st, gi.exc), merged |-> FALSE]
       ELSE IF mb.exc # "none"
       THEN [st |-> Raise(st, mb.exc), merged |-> FALSE]
       ELSE IF mb.val
       THEN [st |-> Note(Then(DeleteCommand(st, idx, i + x + 1),
                              LAMBDA s : ReplaceCommand(s, idx, i,
                                                        merged_command)),
                         MergeEdit(st, command_i, partner, merged_command,
                                   x, idx, i)),
             merged |-> TRUE]
       ELSE [st |-> st, merged |-> FALSE]

\* what the search of lines 301-341 for a commutable list did: the command
\* at i of the scanned list q, the offset x, the candidate lists it kept and
\* what the matching loop left (lm)
Searched(st, idx, i, x, cands, lm) ==
    [st EXCEPT !.searches =
        Append(@, [idx |-> idx, i |-> i, x |-> x, q |-> st.l[idx],
                   cands |-> cands, exc |-> lm.exc, adv |-> lm.adv,
                   com |-> lm.com])]

\* a try block without its handler
NotMergeableEscapes(r) == r

\* lines 293-295: except NotMergeable: pass
CatchNotMergeable(r) ==
    IF r.st.exc = "NotMergeable" THEN [r EXCEPT !.st.exc = "none"] ELSE r

\* What one pass of the loop "while (i+x+1 < limit)" of lines 250-344
\* leaves: the state, i, x, limit and i_x_com, and where control goes -
\* "left": the loop is left (break, or an exception), "inner": its next
\* pass, "match": the search of lines 305-336 for a commutable list.
Pass(st, i, x, limit, com, next) ==
    [st |-> st, i |-> i, x |-> x, limit |-> limit, com |-> com,
     next |-> next]

\* lines 305-311: the candidate lists for the pair at i and i+x+1
Candidates(st, idx, i, x) ==
    StartingLists(
        GetCommutableGateLists(At(st.l[idx], i).gate, st.order),
        KindOf(At(st.l[idx], i + x + 1)))

\* a pass that goes on at the same offset when the pair commutes
AfterMergeSameOffset(ma, st, idx, i, x, limit) ==
    IF ma.st.exc # "none" THEN Pass(ma.st, i, x, limit, TRUE, "left")
    ELSE IF ma.merged THEN Pass(ma.st, 0, x, limit - 1, TRUE, "left")
    ELSE IF CmdIsCommutable(At(st.l[idx], i), At(st.l[idx], i + x + 1)) = YES
    THEN Pass(st, i, x, limit, TRUE, "inner")
    ELSE IF CmdIsCommutable(At(st.l[idx], i), At(st.l[idx], i + x + 1)) = LIST
    THEN Pass(st, i, x, limit, FALSE, "match")
    ELSE Pass(st, i, x, limit, TRUE, "left")

\* lines 296-342, reached when the pair was not cancelled; ma is what the
\* try block left
AfterMerge(ma, st, idx, i, x, limit) ==
    LET com == CmdIsCommutable(At(st.l[idx], i), At(st.l[idx], i + x + 1))
    IN
    IF ma.st.exc # "none" THEN Pass(ma.st, i, x, limit, TRUE, "left")
    ELSE IF ma.merged THEN Pass(ma.st, 0, x, limit - 1, TRUE, "left")
    \* lines 297-299
    ELSE IF com = YES THEN Pass(st, i, x + 1, limit, TRUE, "inner")
    \* lines 301-311
    ELSE IF com = LIST THEN Pass(st, i, x, limit, FALSE, "match")
    \* line 342
    ELSE Pass(st, i, x, limit, TRUE, "left")

\* lines 312-341, reached when the matching loop is done; lm is what it left
AfterMatch(lm, st, idx, i, x, limit) ==
    IF lm.exc # "none"
    THEN Pass(Raise(Searched(st, idx, i, x, Candidates(st, idx, i, x), lm),
                    lm.exc),
              i, x, limit, FALSE, "left")
    ELSE Pass(Searched(st, idx, i, x, Candidates(st, idx, i, x), lm),
              i, x + lm.adv, limit, lm.com, "inner")

\* lines 251-342: one pass of the loop with i_x_com true
InnerPass(st, idx, i, x, limit) ==
    LET q == st.l[idx]
    IN
    IF ~InRange(q, i) THEN Pass(Raise(st, "IndexError"), i, x, limit, TRUE, "left")
    ELSE IF ~CmdHasInverse(At(q, i))
    THEN Pass(Raise(st, "NotInvertible"), i, x, limit, TRUE, "left")
    ELSE IF ~InRange(q, i + x + 1)
    THEN Pass(Raise(st, "IndexError"), i, x, limit, TRUE, "left")
    ELSE
        LET command_i == At(q, i)
            partner == At(q, i + x + 1)
            inv == CmdInverse(command_i)
            qubitids == QubitIds(command_i)
            gi == GetGateIndices(st, idx, i, qubitids)
            isInv == CmdEq(inv, partner)
            er == Then(gi.idcs,
                       LAMBDA c : GetErase(st, idx, qubitids, c, inv))
        IN
        \* lines 255-273
        IF isInv /\ gi.exc # "none"
        THEN Pass(Raise(st, gi.exc), i, x, limit, TRUE, "left")
        ELSE IF isInv /\ er.exc # "none"
        THEN Pass(Raise(st, er.exc), i, x, limit, TRUE, "left")
        ELSE IF isInv /\ er.val
        THEN Pass(Note(Then(DeleteCommand(st, idx, i + x + 1),
                            LAMBDA s : DeleteCommand(s, idx, i)),
                       EraseEdit(st, command_i, partner, x, idx, i)),
                  0, x, limit - 2, TRUE, "left")
        ELSE Then(CatchNotMergeable(MergeAttempt(st, idx, i, x)),
                  LAMBDA ma : AfterMerge(ma, st, idx, i, x, limit))

\* line 250: the loop goes on while i+x+1 < limit; lines 343-344: it is
\* left when i_x_com is false
InnerOpen(st, i, x, limit, i_x_com) ==
    st.exc = "none" /\ i + x + 1 < limit /\ i_x_com

\* The loop "while (i+x+1 < limit)" of lines 250-344 for one i.  The result
\* is [st, i, limit] as they stand when the loop is left.
RECURSIVE OptimizeInner(_, _, _, _, _, _)
RECURSIVE InnerNext(_, _)

\* where a pass r of the loop leads
InnerNext(r, idx) ==
    IF r.next = "left" THEN [st |-> r.st, i |-> r.i, limit |-> r.limit]
    ELSE IF r.next = "inner"
    THEN OptimizeInner(r.st, idx, r.i, r.x, r.limit, r.com)
    ELSE InnerNext(
            AfterMatch(MatchLists(r.st.l[idx], r.i + r.x + 1,
                                  Candidates(r.st, idx, r.i, r.x), 1, 0),
                       r.st, idx, r.i, r.x, r.limit),
            idx)

OptimizeInner(st, idx, i, x, limit, i_x_com) ==
    IF ~InnerOpen(st, i, x, limit, i_x_com)
    THEN [st |-> st, i |-> i, limit |-> limit]
    ELSE InnerNext(InnerPass(st, idx, i, x, limit), idx)

\* What the head of the loop "while i < limit - 1" of lines 236-245 leaves:
\* "return": the loop is over (or an exception is raised), "outer": the
\* next pass, after an identity was deleted, "inner": the inner loop.
OuterPass(st, idx, i, limit) ==
    IF st.exc # "none" \/ ~(i < limit - 1)
    THEN Pass(st, i, 0, limit, TRUE, "return")
    ELSE IF ~InRange(st.l[idx], i + 1)
    THEN Pass(Raise(st, "IndexError"), i, 0, limit, TRUE, "return")
    ELSE IF CmdIsIdentity(At(st.l[idx], i))
    THEN Pass(Note(DeleteCommand(st, idx, i),
                   IdentityEdit(st, At(st.l[idx], i), idx, i)),
              0, 0, limit - 1, TRUE, "outer")
    ELSE Pass(st, i, 0, limit, TRUE, "inner")

\* The loop "while i < limit - 1" of lines 236-346.  The result is
\* [st, limit]; limit is the value _optimize returns.
RECURSIVE OptimizeLoop(_, _, _, _)

\* line 346, "i += 1", runs whenever the inner loop is left, after an edit
\* too; r is what the inner loop left
OptimizeNext(r, idx) == OptimizeLoop(r.st, idx, r.i + 1, r.limit)

\* where the head r of a pass leads
OuterNext(r, idx) ==
    IF r.next = "return" THEN [st |-> r.st, limit |-> r.limit]
    ELSE IF r.next = "outer" THEN OptimizeLoop(r.st, idx, r.i, r.limit)
    ELSE OptimizeNext(OptimizeInner(r.st, idx, r.i, 0, r.limit, TRUE), idx)

OptimizeLoop(st, idx, i, limit) == OuterNext(OuterPass(st, idx, i, limit), idx)

\* what a call of _optimize(idx, lim) that was entered in st0 did; r is
\* what the loop left and r.limit the value returned
Optimized(r, st0, idx, lim) ==
    IF r.st.exc # "none" THEN r
    ELSE [r EXCEPT !.st.opts =
             Append(@, [idx |-> idx, lim |-> lim, ret |-> r.limit,
                        before |-> st0.l[idx], after |-> r.st.l[idx],
                        active |-> st0.active])]

\* an _optimize that returns the limit it was given
OptimizeKeepsLimit(st, idx, lim) ==
    Optimized([OptimizeLoop(st, idx, 0, lim) EXCEPT !.limit = lim],
              st, idx, lim)

\* an _optimize that scans the whole list whatever limit it is given
OptimizeIgnoresLimit(st, idx, lim) ==
    Optimized([OptimizeLoop(st, idx, 0, Len(st.l[idx]))
                  EXCEPT !.limit = @ - (Len(st.l[idx]) - lim)],
              st, idx, lim)

\* _optimize(idx, lim); lim = None is passed as len(self._l[idx])
Optimize(st, idx, lim) == Optimized(OptimizeLoop(st, idx, 0, lim), st, idx, lim)

-----------------------------------------------------------------------------
(* _send_qubit_pipeline *)

\* lines 61-64: "while self._l[Id][gateloc] != cmd_list[i]: gateloc += 1";
\* -1 stands for running off the end of the list (IndexError)
GateLoc(q, cmd) ==
    LET hits == {p \in 0..(Len(q) - 1) : CmdEq(At(q, p), cmd)}
    IN IF hits = {} THEN -1 ELSE CHOOSE p \in hits : \A r \in hits : p <= r

\* lines 60-74: the handler of "except IndexError"
CatchIndexError(st) ==
    IF st.exc = "IndexError"
    THEN [st EXCEPT !.exc = "none", !.log = @ + 1]
    ELSE st

\* the calls an exception has left are no longer running
Unwound(st1, active) ==
    IF st1.exc # "none" THEN st1 ELSE [st1 EXCEPT !.active = active]

\* all but the last entry
Front(q) == SubSeq(q, 1, Len(q) - 1)

RECURSIVE SendQubitPipeline(_, _, _)
RECURSIVE SendCommands(_, _, _, _, _, _)
RECURSIVE SendOthers(_, _, _, _)

\* line 71, reached when the nested drain returned
DropShared(sent, Id) ==
    IF sent.exc # "none" THEN sent
    ELSE [sent EXCEPT !.l[Id] = SliceFrom(@, 1)]

\* lines 68-71, reached when _optimize returned; opt is its result
DrainOther(opt, Id) ==
    IF opt.st.exc # "none" THEN opt.st
    ELSE DropShared(SendQubitPipeline(opt.st, Id, opt.limit), Id)

\* lines 61-71: the body of the try block for the qubit Id
SendOther(st, cmd, Id) ==
    IF ~HasKey(st, Id) THEN Raise(st, "KeyError")
    ELSE IF GateLoc(st.l[Id], cmd) = -1 THEN Raise(st, "IndexError")
    ELSE DrainOther(Optimize(st, Id, GateLoc(st.l[Id], cmd)), Id)

\* lines 58-74 for the command cmd: the other qubits, from position k on
SendOthers(st, cmd, other_involved_qubits, k) ==
    IF st.exc # "none" \/ k > Len(other_involved_qubits) THEN st
    ELSE SendOthers(
            Unwound(CatchIndexError(
                        SendOther(st, cmd, other_involved_qubits[k])),
                    st.active),
            cmd, other_involved_qubits, k + 1)

\* a send that hands on the inverse of the command
SendOnInverse(st1, idx, cmd_list, i, cnt, call) ==
    IF st1.exc # "none" THEN st1
    ELSE SendCommands([st1 EXCEPT
                          !.out = Append(@, CmdInverse(At(cmd_list, i))),
                          !.sends = Append(@, [by |-> call,
                                               cmd |-> At(cmd_list, i)])],
                      idx, cmd_list, i + 1, cnt, call)

\* line 78 and the next iteration, reached when the other qubits are done;
\* call numbers the running call of _send_qubit_pipeline
SendOn(st1, idx, cmd_list, i, cnt, call) ==
    IF st1.exc # "none" THEN st1
    ELSE SendCommands([st1 EXCEPT
                          !.out = Append(@, At(cmd_list, i)),
                          !.sends = Append(@, [by |-> call,
                                               cmd |-> At(cmd_list, i)])],
                      idx, cmd_list, i + 1, cnt, call)

\* lines 51-78: the loop over the first cnt commands of cmd_list, from i on
SendCommands(st, idx, cmd_list, i, cnt, call) ==
    IF st.exc # "none" \/ i >= cnt THEN st
    ELSE
        LET cmd == At(cmd_list, i)
            NotIdx(qb) == qb # idx
            other_involved_qubits == SelectSeq(QubitIds(cmd), NotIdx)
        IN SendOn(SendOthers(st, cmd, other_involved_qubits, 1),
                  idx, cmd_list, i, cnt, call)

\* the commands that the call numbered call has sent itself at line 78,
\* without those sent by the calls nested in it
SentBy(st1, call) ==
    LET Own(s) == s.by = call
        own == SelectSeq(st1.sends, Own)
    IN [k \in 1..Len(own) |-> own[k].cmd]

\* what a call of _send_qubit_pipeline(idx, n) that was entered in st0 did
Drained(st0, st1, idx, n) ==
    [idx |-> idx, n |-> n, before |-> st0.l[idx],
     sent |-> SentBy(st1, st0.calls), after |-> SliceFrom(st1.l[idx], n),
     active |-> Front(st0.active)]

\* a drain that leaves the list as long as it was
ResizeForgotten(st1, idx, n, st0) ==
    IF st1.exc # "none" THEN st1
    ELSE [st1 EXCEPT
            !.active = Front(st0.active),
            !.drains = Append(@, [Drained(st0, st1, idx, n)
                                     EXCEPT !.after = st1.l[idx]])]

\* line 80; st0 is the state in which the call was entered
Resize(st1, idx, n, st0) ==
    IF st1.exc # "none" THEN st1
    ELSE [st1 EXCEPT !.l[idx] = SliceFrom(@, n),
                     !.active = Front(st0.active),
                     !.drains = Append(@, Drained(st0, st1, idx, n))]

\* lines 50-80 of the call entered in st0, which st0.calls numbers
Entered(st0, idx, n) ==
    Resize(SendCommands(st0, idx, st0.l[idx], 0,
                        MinOf(n, Len(st0.l[idx])), st0.calls),
           idx, n, st0)

\* cmd_list is the list object bound at entry: every later edit of
\* self._l[idx] rebinds the dict entry to a new list and leaves it alone
SendQubitPipeline(st, idx, n) ==
    IF st.exc # "none" THEN st
    ELSE IF Len(st.active) >= MaxNesting THEN Raise(st, "RecursionError")
    ELSE IF ~HasKey(st, idx) THEN Raise(st, "KeyError")
    ELSE Entered([st EXCEPT !.calls = @ + 1, !.active = Append(@, idx)],
                 idx, n)

-----------------------------------------------------------------------------
(* _check_and_send, _cache_cmd, receive *)

LastIsFastForwarding(q) == Len(q) > 0 /\ IsFastForwarding(q[Len(q)].gate)

\* a rebuild that keeps every key
KeepEmpty(st) == st

\* lines 365-369 and 397-401: drop the keys whose list is empty
DropEmpty(st) ==
    LET NonEmpty(id) == Len(st.l[id]) > 0
    IN [st EXCEPT !.keys = SelectSeq(st.keys, NonEmpty)]

\* lines 354-364: the loop over the keys of self._l, from position k on
\* a check that never sends at the window threshold
SendCountNoThreshold(st1, i, mm) ==
    IF LastIsFastForwarding(st1.l[i]) THEN Len(st1.l[i]) ELSE 0

\* a count at the window threshold that is one too small
SendCountShort(st1, i, mm) ==
    IF Len(st1.l[i]) >= mm /\ ~LastIsFastForwarding(st1.l[i])
    THEN Len(st1.l[i]) - mm
    ELSE IF LastIsFastForwarding(st1.l[i]) THEN Len(st1.l[i])
    ELSE 0

\* lines 358-364, reached when _optimize returned: how many commands of
\* pipeline i to send, 0 when neither branch is taken
SendCount(st1, i, mm) ==
    LET q1 == st1.l[i]
    IN IF Len(q1) >= mm /\ ~LastIsFastForwarding(q1) THEN Len(q1) - mm + 1
       ELSE IF LastIsFastForwarding(q1) THEN Len(q1)
       ELSE 0

CheckSend(st1, i, mm) ==
    IF st1.exc # "none" \/ SendCount(st1, i, mm) = 0 THEN st1
    ELSE SendQubitPipeline(st1, i, SendCount(st1, i, mm))

\* a check that optimizes and sends whatever the length of the list
CheckAlways(st, i, mm) ==
    CheckSend(Optimize(st, i, Len(st.l[i])).st, i, mm)

\* lines 355-364 for the key i
CheckOne(st, i, mm) ==
    IF Len(st.l[i]) >= mm \/ LastIsFastForwarding(st.l[i])
    THEN CheckSend(Optimize(st, i, Len(st.l[i])).st, i, mm)
    ELSE st

RECURSIVE CheckLoop(_, _, _)
CheckLoop(st, mm, k) ==
    IF st.exc # "none" \/ k > Len(st.keys) THEN st
    ELSE CheckLoop(CheckOne(st, st.keys[k], mm), mm, k + 1)

\* lines 365-369, reached when the loop over the keys is done
Rebuild(st1) == IF st1.exc # "none" THEN st1 ELSE DropEmpty(st1)

CheckAndSend(st, mm) == Rebuild(CheckLoop(st, mm, 1))

\* lines 380-383
RECURSIVE CacheLoop(_, _, _, _)
CacheLoop(st, cmd, idlist, j) ==
    IF j > Len(idlist) THEN st
    ELSE
        LET ID == idlist[j]
            st1 == IF HasKey(st, ID) THEN st
                   ELSE [st EXCEPT !.keys = Append(@, ID), !.l[ID] = <<>>]
        IN CacheLoop([st1 EXCEPT !.l[ID] = Append(@, cmd)], cmd, idlist, j + 1)

CacheCmd(st, cmd, mm) ==
    CheckAndSend(CacheLoop(st, cmd, QubitIds(cmd), 1), mm)

\* lines 394-396: the loop over the keys of self._l, from position k on
\* line 396, reached when _optimize returned
FlushSend(st1, idx) ==
    IF st1.exc # "none" THEN st1
    ELSE SendQubitPipeline(st1, idx, Len(st1.l[idx]))

RECURSIVE FlushLoop(_, _)
FlushLoop(st, k) ==
    IF st.exc # "none" \/ k > Len(st.keys) THEN st
    ELSE FlushLoop(
            FlushSend(Optimize(st, st.keys[k], Len(st.l[st.keys[k]])).st,
                      st.keys[k]),
            k + 1)

\* lines 397-402, reached when every pipeline was drained
AssertEmpty(st1) ==
    IF st1.exc # "none" THEN st1
    ELSE IF DropEmpty(st1).keys # <<>>
    THEN Raise(DropEmpty(st1), "AssertionError")
    ELSE DropEmpty(st1)

\* line 403
SendFlush(st2, cmd) ==
    IF st2.exc # "none" THEN st2 ELSE [st2 EXCEPT !.out = Append(@, cmd)]

\* a faulty flush branch: the flush command is sent before the pipelines
\* are drained
ReceiveFlushEarly(st, cmd) ==
    AssertEmpty(FlushLoop(SendFlush(st, cmd), 1))

\* lines 393-403
ReceiveFlush(st, cmd) ==
    SendFlush(AssertEmpty(FlushLoop(st, 1)), cmd)

\* receive([cmd])
ReceiveOne(st, cmd, mm) ==
    IF cmd.gate = FlushGate THEN ReceiveFlush(st, cmd)
    ELSE CacheCmd(st, cmd, mm)

-----------------------------------------------------------------------------
(* The Pasqal HTTP client (src/projectq/backends/_pasqal/                  *)
(* _pasqal_http_client.py).  pq is a record: the arguments of the call     *)
(* (call, device, nq, keyed, num_retries, jobid), the server as the call   *)
(* finds it (job: the status of the job, transport: what a request to the  *)
(* server does), the session (backends, token) and the progress of the     *)
(* call (pc, ran, requests, polls, execid, result, reported, raised,       *)
(* msgid, shown).                                                          *)

\* largest num_retries a caller passes
MaxRetries == 3

\* line 50: 'nq' of pasqal_simulator
SimulatorQubits == 9

Devices ==
    {"pasqal_simulator", "pasqal_simulator_noise", "pasqal_device",
     "pasqal_unknown"}

\* info['nq'] of the programs sent
NqChoices == {3, SimulatorQubits, SimulatorQubits + 1, 100}

\* the exceptions send() has a handler for, lines 274-282
Caught == {"HTTPError", "RequestException", "KeyError"}

\* the session before any call
NoCall ==
    [pc |-> "idle", call |-> "none", device |-> "none", nq |-> 0,
     keyed |-> TRUE, num_retries |-> 0, jobid |-> "none",
     job |-> "finished", transport |-> "ok",
     backends |-> {}, token |-> FALSE, updated |-> FALSE,
     ran |-> FALSE, polled |-> FALSE, requests |-> 0, polls |-> 0,
     execid |-> "none", result |-> "none", reported |-> FALSE,
     raised |-> "none", msgid |-> "none", shown |-> {}]

\* lines 47-53: self.backends after update_devices_list
UpdatedBackends == {[name |-> "pasqal_simulator", nq |-> SimulatorQubits]}

\* is_online, line 60
IsOnline(backends, device) == \E b \in backends : b.name = device

\* self.backends[device]['nq'], line 73
NqOf(backends, device) == (CHOOSE b \in backends : b.name = device).nq

\* a check that lets every program through
RunnableAlways(nb_qubit_needed, nb_qubit_max) == TRUE

\* line 75
Runnable(nb_qubit_needed, nb_qubit_max) == nb_qubit_needed <= nb_qubit_max

\* an exception leaves the body of send(): lines 274-282 print it and let
\* send() return None when it is one of Caught, other exceptions propagate
SendRaises(s, e) ==
    IF e \in Caught
    THEN [s EXCEPT !.pc = "returned", !.result = "none", !.reported = TRUE]
    ELSE [s EXCEPT !.pc = "raised", !.raised = e]

\* an exception leaves retrieve() or show_devices(), which have no handler
Raises(s, e) == [s EXCEPT !.pc = "raised", !.raised = e]

\* line 135: req = [0,1,0,0,0,0]; the request to the server is commented
\* out (lines 129-134), so neither the job nor the transport is looked at
FetchResult(job, transport) == "samples"

\* lines 127-155 of _get_result: the loop "for retries in range(num_retries)"
\* from retries on.  The result is the session after _get_result, with
\* pc = "raised" when it raised.
RECURSIVE PollLoop(_, _)
PollLoop(s, retries) ==
    IF ~(retries < s.num_retries)
    THEN [s EXCEPT !.pc = "raised", !.raised = "Timeout",
                   !.msgid = s.execid]
    ELSE IF FetchResult(s.job, s.transport) # "none"
    THEN [s EXCEPT !.polls = @ + 1, !.pc = "returned",
                   !.result = FetchResult(s.job, s.transport)]
    ELSE PollLoop([s EXCEPT !.polls = @ + 1], retries + 1)

-----------------------------------------------------------------------------
(* The Rxx decomposition rule (src/projectq/setups/decompositions/         *)
(* rxx2cz.py)                                                              *)

\* Command.control_qubits: the first group of all_qubits
ControlQubits(cmd) == cmd.all_qubits[1]

\* projectq.meta.get_control_count
GetControlCount(cmd) == Len(ControlQubits(cmd))

\* a recognizer that accepts every command
RecognizeAny(cmd) == TRUE

\* _recognize_rxx, line 39
RecognizeRxx(cmd) == GetControlCount(cmd) = 0

-----------------------------------------------------------------------------
(* The producer: what receive() is given *)

\* all_qubits = (control qubits, target qubits)
On1(t) == << <<>>, <<t>> >>
On2(c, t) == << <<c>>, <<t>> >>
On3(c1, c2, t) == << <<c1, c2>>, <<t>> >>

Proto(gate, all_qubits) == [gate |-> gate, all_qubits |-> all_qubits]

\* cmds: the gate commands the producer may deliver; orders: the iteration
\* orders of commutable-list sets to consider
Alphabet(cmds, orders) == [cmds |-> cmds, orders |-> orders]

X(t) == Proto(XGate, On1(t))
H(t) == Proto(HGate, On1(t))
Z(t) == Proto(ZGate, On1(t))
R(a, t) == Proto(Rz(a), On1(t))
CX01 == Proto(XGate, On2(0, 1))
CH01 == Proto(HGate, On2(0, 1))
CRz01(a) == Proto(Rz(a), On2(0, 1))
CCX012 == Proto(XGate, On3(0, 1, 2))
CCRz012(a) == Proto(Rz(a), On3(0, 1, 2))

Alphabets == <<
    \* one qubit: inverses, rotations, a commutable list
    Alphabet({ X(0), H(0), R(1, 0) }, {1}),
    \* one qubit: a gate with two commutable lists
    Alphabet({ Z(0), H(0), X(0) }, {1, 2}),
    \* one qubit: identities, a gate without inverse
    Alphabet({ R(0, 0), R(1, 0), Proto(NoInv, On1(0)) }, {1}),
    \* two qubits: an inverse pair with a commuting or a list-commuting gate
    \* on its target
    Alphabet({ CX01, X(1), H(1) }, {1}),
    \* two qubits: an inverse pair with a non-commuting gate on its target
    Alphabet({ CX01, R(1, 1), X(0) }, {1}),
    \* two qubits: mergeable and duplicate gates
    Alphabet({ CRz01(1), X(1), R(1, 1) }, {1}),
    \* two qubits: fast-forwarding, a commutable list that runs into
    \* two-qubit gates
    Alphabet({ X(1), H(1), CRz01(1), Proto(Measure, On1(0)), CH01 },
             {1}),
    \* three qubits: an inverse pair
    Alphabet({ CCX012, R(1, 1), X(2) }, {1}),
    Alphabet({ CCX012, X(0), X(2) }, {1}),
    \* three qubits: a mergeable pair
    Alphabet({ CCRz012(1), X(1), R(1, 2) }, {1})
>>

FlushQubits == << <<>>, <<-1>> >>

\* number of commands receive() has been given
nIn == Len(inp)

StateOf ==
    [l |-> l, keys |-> keys, out |-> out, gone |-> gone, edits |-> edits,
     drains |-> drains, muts |-> muts, opts |-> opts,
     searches |-> searches, exc |-> exc,
     log |-> log, order |-> order,
     calls |-> 0, sends |-> <<>>, active |-> <<>>]

\* the qubits of the programs the backend receives
BackendQubits == {0, 1}

\* PasqalBackend.__init__, lines 82-96: nothing is stored.  program and
\* live are kept for the properties and the producer: the gate operations
\* stored since the last flush, and the qubits the main engine holds.
NewBackend ==
    [clear |-> TRUE, circuit |-> <<>>, measured_ids |-> <<>>,
     allocated_qubits |-> {}, mapper |-> {},
     buffer_sq_id |-> [q \in BackendQubits |-> "no key"],
     probabilities |-> FALSE, exc |-> "none", jobs |-> <<>>,
     program |-> <<>>, live |-> {}, received |-> 0]

\* no call of _optimize is followed pass by pass
NoScan ==
    [pc |-> "off", idx |-> 0, lim |-> 0, i |-> 0, x |-> 0, limit |-> 0,
     com |-> TRUE, k |-> 1, y |-> 0]

InitWith(alphabets, d) ==
    /\ l = [q \in Qubits |-> <<>>]
    /\ keys = <<>>
    /\ m \in 1..d
    /\ out = <<>>
    /\ gone = <<>>
    /\ edits = <<>>
    /\ drains = <<>>
    /\ muts = <<>>
    /\ opts = <<>>
    /\ searches = <<>>
    /\ scan = NoScan
    /\ backend = NewBackend
    /\ pq = NoCall
    /\ rxx = <<>>
    /\ inp = <<>>
    /\ exc = "none"
    /\ log = 0
    /\ ab \in alphabets
    /\ order \in Alphabets[ab].orders
    /\ depth = d

Init == InitWith(1..Len(Alphabets), MaxCmds)

\* the producer of the fast-forwarding alphabet, one command longer
LongAlphabets == {7}

InitLong == InitWith(LongAlphabets, MaxCmds + 1)

\* the state receive([cmd]) leaves behind
Becomes(st, cmd) ==
    /\ l' = st.l
    /\ keys' = st.keys
    /\ out' = st.out
    /\ gone' = st.gone
    /\ exc' = st.exc
    /\ log' = st.log
    /\ edits' = st.edits
    /\ drains' = st.drains
    /\ muts' = st.muts
    /\ opts' = st.opts
    /\ searches' = st.searches
    /\ inp' = Append(inp, cmd)
    /\ UNCHANGED <<m, order, ab, depth, pq, rxx, scan, backend>>

Deliver(cmd) == Becomes(ReceiveOne(StateOf, cmd, m), cmd)

\* receive([cmd]) for a gate command
Receive ==
    /\ exc = "none"
    /\ nIn < depth
    /\ \E p \in Alphabets[ab].cmds :
          Deliver(Command(p.gate, p.all_qubits, {nIn + 1}))

\* receive([cmd]) for a flush command
Flush ==
    /\ exc = "none"
    /\ nIn < depth
    /\ Deliver(Command(FlushGate, FlushQubits, {nIn + 1}))

Next == Receive \/ Flush

Spec == Init /\ [][Next]_vars

SpecLong == InitLong /\ [][Next]_vars

\* the same producer, two commands longer, in front of one window size
InitDeep == InitWith(LongAlphabets, MaxCmds + 2) /\ m = MaxCmds - 1

SpecDeep == InitDeep /\ [][Next]_vars

-----------------------------------------------------------------------------
(* A call of _optimize followed pass by pass.  The commands received so    *)
(* far are all buffered (the window is larger than every list), and        *)
(* _optimize(idx, lim) is called as the flush branch or a drain calls it.  *)
(* Each step is one pass of one of its loops.                              *)

\* largest number of buffered commands
MaxScan == 5

\* the producers whose buffers are scanned
ScanAlphabets == {1, 2, 3, 6}

\* the commands f, numbered as they arrive
Numbered(f) ==
    [k \in 1..Len(f) |-> Command(f[k].gate, f[k].all_qubits, {k})]

\* lines 380-383 for every command of cmds from position k on
RECURSIVE CacheAll(_, _, _)
CacheAll(st, cmds, k) ==
    IF k > Len(cmds) THEN st
    ELSE CHOOSE r \in {CacheAll(st1, cmds, k + 1) :
                         st1 \in {CacheLoop(st, cmds[k], QubitIds(cmds[k]), 1)}}
                : TRUE

\* the limits _optimize is called with: None (the length of the list, lines
\* 357 and 395) and the position of a command on several qubits (line 66)
ScanLimits(q) ==
    {Len(q)} \cup {GateLoc(q, q[p]) :
                     p \in {r \in 1..Len(q) : Len(QubitIds(q[r])) >= 2}}

InitScan ==
    /\ ab \in ScanAlphabets
    /\ order \in Alphabets[ab].orders
    /\ inp \in UNION {{Numbered(f) : f \in [1..n -> Alphabets[ab].cmds]} :
                        n \in 1..MaxScan}
    /\ m = MaxScan + 1
    /\ depth = MaxScan
    /\ out = <<>>
    /\ gone = <<>>
    /\ edits = <<>>
    /\ drains = <<>>
    /\ muts = <<>>
    /\ opts = <<>>
    /\ searches = <<>>
    /\ pq = NoCall
    /\ rxx = <<>>
    /\ exc = "none"
    /\ log = 0
    /\ keys = <<>>
    /\ l = [q \in Qubits |-> <<>>]
    /\ scan = NoScan
    /\ backend = NewBackend

\* the buffer is filled: _cache_cmd for every command received, below the
\* window
FillBuffer ==
    /\ scan.pc = "off"
    /\ keys = <<>>
    /\ \E st \in {CacheAll(StateOf, inp, 1)} : l' = st.l /\ keys' = st.keys
    /\ scan' = [scan EXCEPT !.pc = "filled"]
    /\ UNCHANGED <<m, out, gone, edits, drains, muts, opts, searches, pq, rxx,
                   inp, exc, log, order, ab, depth, backend>>

\* lines 231-234: _optimize(idx, lim) is entered
EnterOptimize ==
    /\ scan.pc = "filled"
    /\ \E idx \in SeqToSet(keys) : \E lim \in ScanLimits(l[idx]) :
          scan' = [NoScan EXCEPT !.pc = "outer", !.idx = idx, !.lim = lim,
                                 !.limit = lim]
    /\ UNCHANGED <<l, keys, m, out, gone, edits, drains, muts, opts, searches,
                   pq, rxx, inp, exc, log, order, ab, depth, backend>>

\* the optimizer's state and the locals of _optimize after a pass
Scanned(st, sc) ==
    /\ l' = st.l
    /\ keys' = st.keys
    /\ out' = st.out
    /\ gone' = st.gone
    /\ exc' = st.exc
    /\ log' = st.log
    /\ edits' = st.edits
    /\ drains' = st.drains
    /\ muts' = st.muts
    /\ opts' = st.opts
    /\ searches' = st.searches
    /\ scan' = IF st.exc # "none" THEN [sc EXCEPT !.pc = "raised"] ELSE sc
    /\ UNCHANGED <<m, order, ab, depth, pq, rxx, inp, backend>>

\* the locals after the pass r, with control at pc
Locals(r, pc) ==
    [scan EXCEPT !.pc = pc, !.i = r.i, !.x = r.x, !.limit = r.limit,
                 !.com = r.com, !.k = 1, !.y = 0]

\* lines 236-247: the head of a pass of "while i < limit - 1"
ScanOuter ==
    /\ scan.pc = "outer"
    /\ \E r \in {OuterPass(StateOf, scan.idx, scan.i, scan.limit)} :
          Scanned(r.st, Locals(r, IF r.next = "return" THEN "returned"
                                  ELSE r.next))

\* where a pass r of the inner loop leads: line 346 and back to line 236
\* when the loop is left
ScanInnerTo(r) ==
    IF r.next = "left"
    THEN Scanned(r.st, Locals([r EXCEPT !.i = @ + 1], "outer"))
    ELSE Scanned(r.st, Locals(r, r.next))

\* lines 250-344: a pass of "while (i+x+1 < limit)", or its end
ScanInner ==
    /\ scan.pc = "inner"
    /\ IF InnerOpen(StateOf, scan.i, scan.x, scan.limit, scan.com)
       THEN \E r \in {InnerPass(StateOf, scan.idx, scan.i, scan.x,
                                scan.limit)} : ScanInnerTo(r)
       ELSE Scanned(StateOf, [scan EXCEPT !.pc = "outer", !.i = @ + 1])

\* lines 317-336: a step of the matching loop
ScanMatch ==
    /\ scan.pc = "match"
    /\ \E ms \in {MatchStep(l[scan.idx], scan.i + scan.x + 1,
                             Candidates(StateOf, scan.idx, scan.i, scan.x),
                             scan.k, scan.y)} :
          IF ms.done
          THEN \E r \in {AfterMatch(ms, StateOf, scan.idx, scan.i, scan.x,
                                    scan.limit)} : ScanInnerTo(r)
          ELSE Scanned(StateOf, [scan EXCEPT !.k = ms.k, !.y = ms.y])

NextScan ==
    \/ FillBuffer
    \/ EnterOptimize
    \/ ScanOuter
    \/ ScanInner
    \/ ScanMatch

\* the interpreter runs the call on
SpecScan == InitScan /\ [][NextScan]_vars /\ WF_vars(NextScan)

-----------------------------------------------------------------------------
(* The callers of the Pasqal HTTP client and of the Rxx rule *)

\* the variables of the optimizer
optimizer ==
    <<l, keys, m, out, gone, edits, drains, muts, opts, searches, scan, inp,
      exc, log, order, ab, depth>>

\* no optimizer is at work; the server holds a job in some status and
\* answers requests or fails them
InitServer ==
    /\ l = [q \in Qubits |-> <<>>]
    /\ keys = <<>>
    /\ m = 1
    /\ out = <<>>
    /\ gone = <<>>
    /\ edits = <<>>
    /\ drains = <<>>
    /\ muts = <<>>
    /\ opts = <<>>
    /\ searches = <<>>
    /\ scan = NoScan
    /\ backend = NewBackend
    /\ inp = <<>>
    /\ exc = "none"
    /\ log = 0
    /\ ab = 1
    /\ order = 1
    /\ depth = 0
    /\ rxx = <<>>
    /\ \E job \in {"running", "finished", "error"} :
       \E transport \in {"ok"} \cup Caught :
          pq = [NoCall EXCEPT !.job = job, !.transport = transport]

\* send(info, device, token, num_retries=...) is entered, lines 210-235
CallSend ==
    /\ pq.pc = "idle"
    /\ \E device \in Devices, nq \in NqChoices, keyed \in BOOLEAN,
          num_retries \in 0..MaxRetries :
          pq' = [pq EXCEPT !.pc = "authenticate", !.call = "send",
                           !.device = device, !.nq = nq, !.keyed = keyed,
                           !.num_retries = num_retries]
    /\ UNCHANGED <<optimizer, rxx, backend>>

\* retrieve(device, token, jobid, num_retries=...) is entered, lines 182-199
CallRetrieve ==
    /\ pq.pc = "idle"
    /\ \E device \in Devices, jobid \in {"0", "123e"},
          num_retries \in 0..MaxRetries :
          pq' = [pq EXCEPT !.pc = "authenticate", !.call = "retrieve",
                           !.device = device, !.jobid = jobid,
                           !.num_retries = num_retries]
    /\ UNCHANGED <<optimizer, rxx, backend>>

\* show_devices(), lines 166-179: line 177 calls pasqal(), a name the
\* module does not define (the class is Pasqal)
CallShowDevices ==
    /\ pq.pc = "idle"
    /\ pq' = Raises([pq EXCEPT !.call = "show_devices"], "NameError")
    /\ UNCHANGED <<optimizer, rxx, backend>>

\* _authenticate, lines 77-85 (241 and 200)
Authenticate ==
    /\ pq.pc = "authenticate"
    /\ pq' = [pq EXCEPT !.token = TRUE, !.pc = "update"]
    /\ UNCHANGED <<optimizer, rxx, backend>>

\* update_devices_list, lines 38-56 (244 and 201)
UpdateDevicesList ==
    /\ pq.pc = "update"
    /\ pq' = [pq EXCEPT !.backends = UpdatedBackends, !.updated = TRUE,
                        !.pc = IF pq.call = "send" THEN "online"
                                                   ELSE "get_result",
                        !.execid = IF pq.call = "send" THEN @ ELSE pq.jobid]
    /\ UNCHANGED <<optimizer, rxx, backend>>

\* lines 245-250 of send
CheckOnline ==
    /\ pq.pc = "online"
    /\ pq' = IF IsOnline(pq.backends, pq.device)
             THEN [pq EXCEPT !.pc = "can_run"]
             ELSE SendRaises(pq, "DeviceOfflineError")
    /\ UNCHANGED <<optimizer, rxx, backend>>

\* lines 253-260 of send with can_run_experiment, lines 62-75; info['nq']
\* raises KeyError when info lacks the key
CanRunExperiment ==
    /\ pq.pc = "can_run"
    /\ pq' = IF ~pq.keyed THEN SendRaises(pq, "KeyError")
             ELSE IF ~Runnable(pq.nq, NqOf(pq.backends, pq.device))
             THEN SendRaises(pq, "DeviceTooSmall")
             ELSE [pq EXCEPT !.pc = "run"]
    /\ UNCHANGED <<optimizer, rxx, backend>>

\* _run, lines 87-105 (263): the post is commented out (lines 96-101) and
\* the execution id is '0'
Run ==
    /\ pq.pc = "run"
    /\ pq' = [pq EXCEPT !.ran = TRUE, !.execid = "0", !.pc = "get_result"]
    /\ UNCHANGED <<optimizer, rxx, backend>>

\* _get_result, lines 107-155 (266-273 and 202-207)
GetResult ==
    /\ pq.pc = "get_result"
    /\ pq' = PollLoop([pq EXCEPT !.polled = TRUE], 0)
    /\ UNCHANGED <<optimizer, rxx, backend>>

\* the commands the decomposition rule is asked about: Rxx on two qubits,
\* under no, one and two control qubits
RxxCandidates ==
    {Command(Gate("Rxx", 1), <<ctrl, <<0>>, <<1>>>>, {}) :
        ctrl \in {<<>>, <<2>>, <<2, 3>>}}
    \cup {Command(ZGate, <<ctrl, <<0>>>>, {}) : ctrl \in {<<>>, <<1>>}}

\* DecompositionRule(Rxx, _decompose_rxx2cz, _recognize_rxx), line 44: the
\* replacer asks the recognizer about a command
Recognize ==
    /\ rxx = <<>>
    /\ \E cmd \in RxxCandidates :
          rxx' = <<[cmd |-> cmd, val |-> RecognizeRxx(cmd)]>>
    /\ UNCHANGED <<optimizer, pq, backend>>

NextPasqal ==
    \/ CallSend
    \/ CallRetrieve
    \/ CallShowDevices
    \/ Authenticate
    \/ UpdateDevicesList
    \/ CheckOnline
    \/ CanRunExperiment
    \/ Run
    \/ GetResult
    \/ Recognize

SpecPasqal == InitServer /\ [][NextPasqal]_vars

-----------------------------------------------------------------------------
(* PasqalBackend: the commands of a program are stored until a flush runs  *)
(* the circuit                                                             *)

\* largest number of commands the backend receives
MaxProgram == 6

\* the commands the main engine sends for the qubits in live: it allocates
\* a qubit it does not hold, and acts on qubits it holds
BackendCommands(live) ==
    {[gate |-> "Allocate", qubit |-> q, control |-> q] :
        q \in BackendQubits \ live}
    \cup {[gate |-> g, qubit |-> q, control |-> q] :
            g \in {"Rx", "Rz", "Measure", "Deallocate"}, q \in live}
    \cup {[gate |-> "CZ", qubit |-> p[1], control |-> p[2]] :
            p \in {r \in live \X live : r[1] # r[2]}}

\* lines 137-143: the first command stored after a reset clears the circuit
Cleared(b) ==
    IF b.clear
    THEN [b EXCEPT !.probabilities = FALSE, !.clear = FALSE,
                   !.buffer_sq_id = [q \in BackendQubits |-> "no key"],
                   !.circuit = <<>>, !.allocated_qubits = {}]
    ELSE b

\* a moment of the circuit: the operation of the command received as the
\* at-th, lines 179-181 and 253-272
GateMoment(cmd, at) == [op |-> cmd.gate, qubit |-> cmd.qubit, at |-> at]

\* _get_measurement_json, lines 227-243
MeasurementMoment(ids) == [op |-> "MeasurementGate", qubit |-> ids, at |-> 0]

\* _store, lines 128-188, for the command received as the at-th; b is the
\* backend after lines 137-143
Store(b, cmd, at) ==
    IF cmd.gate = "Allocate"
    THEN [b EXCEPT !.allocated_qubits = @ \cup {cmd.qubit},
                   !.buffer_sq_id[cmd.qubit] = "list"]
    ELSE IF cmd.gate = "Deallocate" THEN b
    ELSE IF cmd.gate = "Measure"
    THEN [b EXCEPT !.buffer_sq_id[cmd.qubit] = "-1",
                   !.mapper = @ \cup {cmd.qubit},
                   !.measured_ids = Append(@, cmd.qubit)]
    \* line 168: qubit is a local of _store that is not bound yet
    ELSE IF cmd.gate = "CZ" THEN [b EXCEPT !.exc = "UnboundLocalError"]
    \* line 178: self._buffer_sq_id[qubit].append(...)
    ELSE IF b.buffer_sq_id[cmd.qubit] = "no key"
    THEN [b EXCEPT !.exc = "KeyError"]
    ELSE IF b.buffer_sq_id[cmd.qubit] = "-1"
    THEN [b EXCEPT !.exc = "AttributeError"]
    \* lines 177-181: _get_moment gives a new moment
    ELSE [b EXCEPT !.circuit = Append(@, GateMoment(cmd, at)),
                   !.program = Append(@, GateMoment(cmd, at))]

\* _reset, lines 123-126
Reset(b) == [b EXCEPT !.clear = TRUE, !.measured_ids = <<>>]

\* _run, lines 388-463, from line 403 on, b being the backend with the
\* measurement moment appended; outcome is what send does: it returns the
\* counts ("ok") or raises.  A job is the circuit submitted, with the gate
\* operations stored since the last flush.
Submit(b, outcome) ==
    IF b.allocated_qubits = {} THEN [b EXCEPT !.exc = "ValueError"]
    ELSE IF outcome # "ok"
    THEN [b EXCEPT !.jobs = Append(@, [moments |-> b.circuit,
                                       program |-> b.program]),
                   !.exc = "Exception"]
    ELSE Reset([b EXCEPT !.jobs = Append(@, [moments |-> b.circuit,
                                             program |-> b.program]),
                         !.probabilities = TRUE])

\* _run, lines 388-402
RunCircuit(b, outcome) ==
    IF b.circuit = <<>> THEN b
    ELSE Submit([b EXCEPT !.circuit =
                    Append(@, MeasurementMoment(b.measured_ids))], outcome)

\* receive, lines 477-478, for a flush; r is the backend after _run
Flushed(r) ==
    IF r.exc # "none" THEN r ELSE [Reset(r) EXCEPT !.program = <<>>]

\* receive, lines 474-475: a command that is not a flush
BackendStore ==
    /\ backend.exc = "none"
    /\ backend.received < MaxProgram
    /\ \E cmd \in BackendCommands(backend.live) :
          backend' = [Store(Cleared(backend), cmd, backend.received + 1)
                        EXCEPT
                         !.received = backend.received + 1,
                         !.live = IF cmd.gate = "Allocate"
                                  THEN @ \cup {cmd.qubit}
                                  ELSE IF cmd.gate = "Deallocate"
                                  THEN @ \ {cmd.qubit}
                                  ELSE @]
    /\ UNCHANGED <<optimizer, pq, rxx>>

\* receive, lines 476-478: a flush
BackendFlush ==
    /\ backend.exc = "none"
    /\ backend.received < MaxProgram
    /\ \E outcome \in {"ok", "raises"} :
          backend' = [Flushed(RunCircuit(backend, outcome)) EXCEPT
                         !.received = backend.received + 1]
    /\ UNCHANGED <<optimizer, pq, rxx>>

NextBackend == BackendStore \/ BackendFlush

\* no optimizer and no client is at work; the backend is new
InitBackend == InitServer /\ pq = NoCall

SpecBackend == InitBackend /\ [][NextBackend]_vars

-----------------------------------------------------------------------------
(* History helpers for the properties *)

IsFlush(cmd) == cmd.gate = FlushGate

\* how often the command object that arrived as number k was forwarded
FwdCount(k) == Cardinality({p \in 1..Len(out) : out[p].src = {k}})

\* how often it was removed by _delete_command or _replace_command
GoneCount(k) == Cardinality({p \in 1..Len(gone) : gone[p].src = {k}})

\* receive() has just returned from a flush command
FlushDone ==
    /\ exc = "none"
    /\ out # <<>>
    /\ IsFlush(out[Len(out)])
    /\ out[Len(out)].src = {nIn}

Touches(cmd, q) == q \in SeqToSet(QubitIds(cmd))

SharesQubit(a, b) == \E q \in Qubits : Touches(a, q) /\ Touches(b, q)

\* arrival number of a command; a merged command counts as its earliest part
Arrival(cmd) == CHOOSE k \in cmd.src : \A j \in cmd.src : k <= j

-----------------------------------------------------------------------------
(* C1: after a flush command has been processed, every command received *)
(* so far was either forwarded exactly once or removed exactly once      *)
(* (deleted, or absorbed into a merged command), never both.             *)
C1_NoLossNoDuplication ==
    FlushDone => \A k \in 1..nIn : FwdCount(k) + GoneCount(k) = 1

\* the commands buffered in some pipeline
Buffered == UNION {SeqToSet(l[q]) : q \in Qubits}

Forwarded(cmd) == \E p \in 1..Len(out) : out[p].src = cmd.src

\* receive() has returned normally from every command it was given
Idle == exc = "none"

-----------------------------------------------------------------------------
(* C2: two forwarded commands that share a qubit were forwarded in their  *)
(* arrival order, and no command that arrived before a forwarded command  *)
(* is still pending in the pipeline of a qubit the forwarded one touches. *)
OutInArrivalOrder ==
    \A p \in 1..Len(out) : \A r \in (p + 1)..Len(out) :
        SharesQubit(out[p], out[r]) => Arrival(out[p]) < Arrival(out[r])

NoEarlierPending ==
    \A p \in 1..Len(out) : \A q \in SeqToSet(QubitIds(out[p])) :
        q \in Qubits =>
            \A r \in 1..Len(l[q]) :
                l[q][r].src # out[p].src =>
                    Arrival(out[p]) < Arrival(l[q][r])

C2_OrderPreservation == Idle => OutInArrivalOrder /\ NoEarlierPending

-----------------------------------------------------------------------------
(* C3: when receive() has returned, no forwarded command is still present *)
(* in a pipeline.                                                         *)
C3_ForwardedNotBuffered ==
    Idle => \A c \in Buffered : ~Forwarded(c)

-----------------------------------------------------------------------------
(* C4: when receive() has returned, every buffered command occupies       *)
(* exactly one position in the pipeline of each qubit it touches and none *)
(* in any other pipeline.                                                 *)
Occurrences(q, cmd) == Cardinality(PosOf(l[q], cmd))

C4_CrossListConsistency ==
    Idle => \A c \in Buffered : \A q \in Qubits :
                Occurrences(q, c) = (IF Touches(c, q) THEN 1 ELSE 0)

-----------------------------------------------------------------------------
-----------------------------------------------------------------------------
(* C6: the emptiness assertion of the flush branch never fails, and after *)
(* a flush command has been processed no qubit has a pending command.     *)
C6_EmptyAfterFlush ==
    /\ exc # "AssertionError"
    /\ FlushDone => keys = <<>> /\ \A q \in Qubits : l[q] = <<>>

\* the first flush command was processed while the pipelines of two qubits
\* that share a command were pending: no fast-forwarding command came before
\* it and the window was never reached, so everything forwarded was drained
\* by the flush
C6_FlushDrainedSharedPipelines ==
    /\ FlushDone
    /\ m > nIn
    /\ \A k \in 1..(nIn - 1) : ~IsFastForwarding(inp[k].gate)
    /\ \E k \in 1..(nIn - 1) : Len(QubitIds(inp[k])) >= 2
    /\ Len(out) >= 3

-----------------------------------------------------------------------------
(* C7: a flush command is never cached; once processed it has been        *)
(* forwarded exactly once, after every command received before it that is *)
(* forwarded at all and before every command received after it.           *)
FlushProcessed(k) == IsFlush(inp[k]) /\ (k < nIn \/ exc = "none")

C7_FlushForwardedLast ==
    /\ \A c \in Buffered : ~IsFlush(c)
    /\ \A k \in 1..nIn : FlushProcessed(k) => FwdCount(k) = 1
    /\ \A p \in 1..Len(out) : \A r \in (p + 1)..Len(out) :
           IsFlush(out[p]) \/ IsFlush(out[r]) =>
               Arrival(out[p]) < Arrival(out[r])
    /\ \A c \in Buffered : \A p \in 1..Len(out) :
           IsFlush(out[p]) /\ FlushProcessed(Arrival(out[p])) =>
               Arrival(out[p]) < Arrival(c)

\* a flush command was forwarded between commands received before it and
\* commands received after it, and a later command is still buffered
C7_FlushInTheMiddle ==
    /\ \E p \in 2..(Len(out) - 1) : IsFlush(out[p])
    /\ Buffered # {}

-----------------------------------------------------------------------------
(* C8: no command whose gate is an identity is ever forwarded.            *)
C8_IdentityNeverForwarded ==
    \A p \in 1..Len(out) : ~CmdIsIdentity(out[p])

-----------------------------------------------------------------------------
(* C9: when a flush command is processed, two buffered commands that are  *)
(* exact inverses with nothing but commuting commands between them on     *)
(* every shared qubit are not both forwarded.                             *)
FlushStep == nIn' = nIn + 1 /\ IsFlush(inp'[nIn + 1])

ForwardedNow(cmd) ==
    /\ ~Forwarded(cmd)
    /\ \E p \in 1..Len(out') : out'[p].src = cmd.src

CleanInversePair(a, b) ==
    /\ CmdEq(CmdInverse(a), b)
    /\ Arrival(a) < Arrival(b)
    /\ CommutationGate(l, a, b, TRUE)

C9_CancellationSoundness ==
    [][FlushStep =>
         \A a \in Buffered : \A b \in Buffered :
             CleanInversePair(a, b) => ~(ForwardedNow(a) /\ ForwardedNow(b))
      ]_vars

-----------------------------------------------------------------------------
(* C10: _optimize deletes an inverse pair only when, on every qubit the   *)
(* earlier command touches, every command between the two commutes with   *)
(* it directly or as part of a fully matched commutable list.             *)
C10_EraseOnlyThroughCommutationGate ==
    \A p \in 1..Len(edits) : edits[p].op = "erase" => edits[p].clean

-----------------------------------------------------------------------------
(* C11: when a flush command is processed, two buffered commands that are *)
(* mergeable, with nothing but directly commuting commands between them   *)
(* on every shared qubit, are not both forwarded as they were: the merged *)
(* command takes their place.                                             *)
CleanMergeablePair(a, b) ==
    /\ CmdMergeable(a, b)
    /\ Arrival(a) < Arrival(b)
    /\ CommutationGate(l, a, b, FALSE)

C11_FusionSoundness ==
    [][FlushStep =>
         \A a \in Buffered : \A b \in Buffered :
             CleanMergeablePair(a, b) => ~(ForwardedNow(a) /\ ForwardedNow(b))
      ]_vars

-----------------------------------------------------------------------------
(* C12: _optimize merges two commands only when, on every qubit the       *)
(* earlier command touches, every command between the two commutes with   *)
(* it directly.                                                           *)
C12_MergeOnlyThroughCommutationGate ==
    \A p \in 1..Len(edits) : edits[p].op = "merge" => edits[p].clean

-----------------------------------------------------------------------------
(* C13: whenever receive() has finished with a command, no pipeline holds *)
(* more than m commands.                                                  *)
C13_WindowBound == \A q \in Qubits : Len(l[q]) <= m

\* a pipeline reached the window size m, its first command was sent, and it
\* now holds m - 1 commands
C13_ThresholdDrained ==
    /\ Idle
    /\ m >= 2
    /\ \E p \in 1..Len(drains) :
          /\ Len(drains[p].before) = m
          /\ ~LastIsFastForwarding(drains[p].before)
          /\ drains[p].n = 1
          /\ Len(l[drains[p].idx]) = m - 1

-----------------------------------------------------------------------------
(* C14: when the command just received leaves a pipeline it touches with  *)
(* at least m commands, the last of them not fast-forwarding, receive()   *)
(* returns with exactly m - 1 commands in that pipeline.                  *)
Ingested == inp'[nIn + 1]

ThresholdStep(q) ==
    /\ nIn' = nIn + 1
    /\ ~IsFlush(Ingested)
    /\ ~IsFastForwarding(Ingested.gate)
    /\ Touches(Ingested, q)
    /\ Len(l[q]) + 1 >= m

C14_ThresholdDrain ==
    [][\A q \in Qubits :
          ThresholdStep(q) => exc' = "none" /\ Len(l'[q]) = m - 1
      ]_vars

-----------------------------------------------------------------------------
(* C15: when the command just received is fast-forwarding, receive()      *)
(* returns with that command forwarded, buffered in no pipeline, and with *)
(* every pipeline it touches empty.                                       *)
FastForwardStep ==
    /\ nIn' = nIn + 1
    /\ ~IsFlush(Ingested)
    /\ IsFastForwarding(Ingested.gate)

C15_FastForwarding ==
    [][FastForwardStep =>
          /\ exc' = "none"
          /\ \E p \in 1..Len(out') : out'[p].src = Ingested.src
          /\ \A q \in Qubits :
                /\ Touches(Ingested, q) => l'[q] = <<>>
                /\ \A p \in 1..Len(l'[q]) : l'[q][p].src # Ingested.src
      ]_vars

-----------------------------------------------------------------------------
(* C16: a call of _send_qubit_pipeline(idx, n) that returns has forwarded  *)
(* exactly the first n commands of the list of idx (all of them when the   *)
(* list is shorter), in list order, and leaves the list as it was at entry *)
(* without those n commands: the nested _optimize and drains of the other  *)
(* qubits neither remove nor change any other command of the list of idx.  *)
DrainedExactly(d) ==
    /\ d.sent = SubSeq(d.before, 1, MinOf(d.n, Len(d.before)))
    /\ d.after = SliceFrom(d.before, d.n)

C16_DrainForwardsFirstN ==
    \A p \in 1..Len(drains) : DrainedExactly(drains[p])

\* a drain that kept part of its list and whose sent commands include one
\* on several qubits, so that other qubits were optimized and drained inside
C16_NestedDrainKeptRest ==
    /\ exc = "none"
    /\ \E p \in 1..Len(drains) :
          /\ drains[p].n >= 1
          /\ Len(drains[p].before) > drains[p].n
          /\ \E k \in 1..Len(drains[p].sent) :
                Len(QubitIds(drains[p].sent[k])) >= 2
          /\ l[drains[p].idx] = drains[p].after
          /\ drains[p].after # <<>>

-----------------------------------------------------------------------------
(* C17: receive() never aborts with an uncaught error; failures of a gate  *)
(* capability and anomalies of the pipelines are handled where they arise, *)
(* and the only error that leaves receive() is the failed assertion that   *)
(* the pipelines are empty after a flush command.                          *)
C17_NoUncaughtError == exc \in {"none", "AssertionError"}

-----------------------------------------------------------------------------
(* C18: when get_inverse() of the command at the scan position raises      *)
(* NotInvertible, _optimize catches it there and goes on with the merge    *)
(* and commutation attempts: NotInvertible never leaves receive().         *)
C18_NotInvertibleCaught == exc # "NotInvertible"

-----------------------------------------------------------------------------
(* C19: when get_merged() rejects a pair with NotMergeable, _optimize      *)
(* catches it there, leaves the pipelines as they are and goes on to the   *)
(* commutation test of the same pair: NotMergeable never leaves receive(). *)
C19_NotMergeableCaught == exc # "NotMergeable"

\* a command that cannot be merged with a arrived between a and b on a
\* qubit of a
RejectedBetween(a, b) ==
    \E k \in 1..nIn :
        /\ Arrival(a) < k
        /\ k < Arrival(b)
        /\ SharesQubit(a, inp[k])
        /\ ~CmdMergeable(a, inp[k])

\* two commands were merged across a neighbour that get_merged() had
\* rejected and that commutes with the first
C19_MergedPastRejectedPair ==
    /\ exc = "none"
    /\ \E p \in 1..Len(edits) :
          /\ edits[p].op = "merge"
          /\ edits[p].over > 0
          /\ RejectedBetween(edits[p].a, edits[p].b)

-----------------------------------------------------------------------------
(* C20: when the position of a command cannot be found in the pipeline of  *)
(* one of its qubits, the anomaly is logged and only that qubit is         *)
(* skipped: a pipeline that is missing because it was drained on its own   *)
(* never makes receive() abort.                                            *)
C20_MissingPositionRecoverable == exc # "KeyError"

-----------------------------------------------------------------------------
(* C21: a call of _delete_command(idx, command_idx) that returns removes   *)
(* the command at that position from the list of every qubit it acts on -  *)
(* one entry per list, the entry that is this very command - and leaves    *)
(* the other entries of these lists, their order and the lists of all      *)
(* other qubits as they were.                                              *)
RemovedFrom(before, after, cmd) ==
    \E p \in 0..(Len(before) - 1) :
        /\ At(before, p) = cmd
        /\ after = RemoveAt(before, p)

DeletedExactly(d) ==
    \A q \in Qubits :
        IF Touches(d.cmd, q)
        THEN RemovedFrom(d.before[q], d.after[q], d.cmd)
        ELSE d.after[q] = d.before[q]

-----------------------------------------------------------------------------
(* C22: a call of _replace_command(idx, command_idx, new_command) that     *)
(* returns puts new_command in the place of the command at that position   *)
(* in the list of every qubit the old command acts on, at the position the *)
(* old command has in that list; every list keeps its length, its other    *)
(* entries and the lists of all other qubits are as they were.             *)
ReplacedIn(before, after, cmd, new) ==
    \E p \in 0..(Len(before) - 1) :
        /\ At(before, p) = cmd
        /\ after = SetAt(before, p, new)

ReplacedExactly(d) ==
    \A q \in Qubits :
        /\ Len(d.after[q]) = Len(d.before[q])
        /\ IF Touches(d.cmd, q)
           THEN ReplacedIn(d.before[q], d.after[q], d.cmd, d.new)
           ELSE d.after[q] = d.before[q]

-----------------------------------------------------------------------------
(* C23: a call of _optimize(idx, lim) that returns gives back lim minus    *)
(* the number of entries it removed from the list of idx, and every entry  *)
(* it removed or replaced lay below lim: the list from position lim on     *)
(* before the call is the list from the returned position on after it, so  *)
(* the command that stood at lim stands at the returned position.          *)
LimitFollowsRemovals(d) ==
    /\ d.ret = d.lim - (Len(d.before) - Len(d.after))
    /\ SliceFrom(d.after, d.ret) = SliceFrom(d.before, d.lim)

C23_OptimizeReturnsShiftedLimit ==
    \A p \in 1..Len(opts) : LimitFollowsRemovals(opts[p])

\* an _optimize called by a drain with a limit inside the list removed
\* entries below the limit
C23_OptimizedBelowSharedCommand ==
    /\ exc = "none"
    /\ \E p \in 1..Len(opts) :
          /\ opts[p].lim < Len(opts[p].before)
          /\ opts[p].ret < opts[p].lim
          /\ InRange(opts[p].after, opts[p].ret)
          /\ At(opts[p].after, opts[p].ret) = At(opts[p].before, opts[p].lim)

-----------------------------------------------------------------------------
(* C29: after _optimize has deleted an identity, cancelled a pair or       *)
(* merged two commands it scans again from position 0, so a pair at        *)
(* positions 0 and 1 that the edit made cancellable or mergeable is found  *)
(* in the same call: when a call that removed entries returns with a limit *)
(* of at least 2, the commands at positions 0 and 1 of the scanned list    *)
(* are not two commands on one qubit that cancel or merge.                 *)
OneQubit(cmd) == Len(QubitIds(cmd)) = 1

\* a and b stand next to each other on their only qubit and _optimize,
\* looking at a, would cancel or merge them
HeadPair(a, b) ==
    /\ OneQubit(a)
    /\ OneQubit(b)
    /\ CmdHasInverse(a)
    /\ CmdEq(CmdInverse(a), b) \/ CmdMergeable(a, b)

C29_EditRestartsScanAtZero ==
    \A p \in 1..Len(opts) :
        (/\ Len(opts[p].after) < Len(opts[p].before)
         /\ opts[p].ret >= 2
         /\ Len(opts[p].after) >= 2)
        => ~HeadPair(At(opts[p].after, 0), At(opts[p].after, 1))

-----------------------------------------------------------------------------
(* C30: _optimize searches by the smallest position i first and then by    *)
(* the nearest partner: when it cancels or merges the command at i with a  *)
(* partner, no command at an earlier position of the scanned list could be *)
(* cancelled or merged with its neighbour, no nearer partner of i could,   *)
(* and it merges the pair only if it cannot cancel it.                     *)
PairEdit(e) == e.op \in {"erase", "merge"}

EarliestSite(e) ==
    \A j \in 0..(e.i - 1) : ~HeadPair(At(e.q, j), At(e.q, j + 1))

NearestPartner(e) ==
    \A x \in 0..(e.over - 1) : ~HeadPair(e.a, At(e.q, e.i + x + 1))

CancelBeforeMerge(e) ==
    e.op = "merge" => ~(CmdHasInverse(e.a) /\ CmdEq(CmdInverse(e.a), e.b))

C30_EarliestSiteNearestPartner ==
    \A p \in 1..Len(edits) :
        PairEdit(edits[p]) =>
            /\ EarliestSite(edits[p])
            /\ NearestPartner(edits[p])
            /\ CancelBeforeMerge(edits[p])

-----------------------------------------------------------------------------
(* C24: send() refuses a program that needs more qubits than the device    *)
(* has: it raises DeviceTooSmall to its caller, its own handlers do not    *)
(* swallow the error, and no job is run or polled.                         *)
PqDone == pq.pc \in {"returned", "raised"}

TooManyQubits ==
    /\ pq.call = "send"
    /\ pq.keyed
    /\ IsOnline(UpdatedBackends, pq.device)
    /\ pq.nq > NqOf(UpdatedBackends, pq.device)

C24_TooSmallRefused ==
    TooManyQubits =>
        /\ ~pq.ran
        /\ ~pq.polled
        /\ pq.polls = 0
        /\ pq.requests = 0
        /\ pq.pc # "returned"
        /\ pq.pc = "raised" => pq.raised = "DeviceTooSmall"

\* send() has raised DeviceTooSmall for a program of 100 qubits
C24_RaisedDeviceTooSmall ==
    /\ TooManyQubits
    /\ pq.nq = 100
    /\ pq.pc = "raised"
    /\ pq.raised = "DeviceTooSmall"
    /\ ~pq.reported

-----------------------------------------------------------------------------
(* C25: polling for the result is bounded: when the result of the job      *)
(* never becomes available, send() and retrieve() poll at least once and   *)
(* at most num_retries times and then raise a timeout whose message names  *)
(* the execution id of the job; they return no result for a job that has   *)
(* not finished.                                                           *)
JobNeverFinishes ==
    /\ pq.call \in {"send", "retrieve"}
    /\ pq.polled
    /\ PqDone
    /\ pq.job = "running"
    /\ pq.transport = "ok"
    /\ pq.num_retries >= 1

C25_PollingBounded ==
    JobNeverFinishes =>
        /\ pq.pc = "raised"
        /\ pq.raised = "Timeout"
        /\ pq.msgid = pq.execid
        /\ pq.result = "none"
        /\ pq.polls >= 1
        /\ pq.polls <= pq.num_retries

-----------------------------------------------------------------------------
(* C26: send() does not let a failure of the transport or of the parsing   *)
(* out: when submitting or polling fails with HTTPError, RequestException  *)
(* or KeyError, send() reports it and returns without a result; a job that *)
(* ends in an error status makes send() and retrieve() raise.              *)
TransportFails ==
    /\ pq.call = "send"
    /\ pq.ran
    /\ PqDone
    /\ pq.transport \in Caught

JobEndsInError ==
    /\ pq.call \in {"send", "retrieve"}
    /\ pq.polled
    /\ PqDone
    /\ pq.transport = "ok"
    /\ pq.job = "error"
    /\ pq.num_retries >= 1

C26_FailuresCaughtErrorsRaised ==
    /\ (pq.call = "send" /\ pq.pc = "raised") => pq.raised \notin Caught
    /\ TransportFails =>
          pq.pc = "returned" /\ pq.result = "none" /\ pq.reported
    /\ JobEndsInError => pq.pc = "raised"

-----------------------------------------------------------------------------
(* C27: after update_devices_list(), is_online(d) holds exactly for        *)
(* 'pasqal_simulator', 'pasqal_simulator_noise' and 'pasqal_device', and   *)
(* show_devices() returns these three devices.                             *)
KnownDevices ==
    {"pasqal_simulator", "pasqal_simulator_noise", "pasqal_device"}

C27_KnownDevicesOnline ==
    /\ pq.updated =>
          \A d \in Devices : IsOnline(pq.backends, d) <=> d \in KnownDevices
    /\ (pq.call = "show_devices" /\ PqDone) =>
          pq.pc = "returned" /\ {b.name : b \in pq.shown} = KnownDevices

-----------------------------------------------------------------------------
(* C28: the Rxx decomposition rule recognizes a command exactly when it    *)
(* has no control qubits: _recognize_rxx answers true for a command        *)
(* without control qubits and false for one with one or more.              *)
C28_RecognizesUncontrolledOnly ==
    \A p \in 1..Len(rxx) : rxx[p].val <=> ControlQubits(rxx[p].cmd) = <<>>

\* an Rxx under two control qubits was refused
C28_RefusedControlledRxx ==
    \E p \in 1..Len(rxx) :
        /\ rxx[p].cmd.gate.kind = "Rxx"
        /\ Len(ControlQubits(rxx[p].cmd)) = 2
        /\ ~rxx[p].val

-----------------------------------------------------------------------------
(* C31: when the command at i and the command at offset x are commutable   *)
(* only as part of a registered sequence, _optimize compares the gate      *)
(* kinds that follow the offset with the candidate lists of the gate at i: *)
(* when a candidate list matches them in full the search ends without an   *)
(* error and x advances by the length of a matching list; when no          *)
(* candidate list matches in full - none starts with the right kind, one   *)
(* stops matching part-way, or the list of the qubit ends first - the      *)
(* search ends without an error, x stays and the search for this i is      *)
(* given up.                                                               *)
KindsFrom(s) == KindsOf(SliceFrom(s.q, s.i + s.x + 1))

FullMatches(s) ==
    {lst \in SeqToSet(GetCommutableGateLists(At(s.q, s.i).gate, 1)) :
        IsPrefix(lst, KindsFrom(s))}

SearchedAsSpecified(s) ==
    /\ s.exc = "none"
    /\ IF FullMatches(s) # {}
       THEN s.com /\ s.adv \in {Len(lst) : lst \in FullMatches(s)}
       ELSE ~s.com /\ s.adv = 0

C31_ListSearchMatchesOrAbandons ==
    \A p \in 1..Len(searches) : SearchedAsSpecified(searches[p])

-----------------------------------------------------------------------------
(* C32: when a list holds several commands that are equal (same gate, same *)
(* qubits), _delete_command and _replace_command applied to the k-th of    *)
(* them in the list of idx act, in the list of every other qubit of the    *)
(* command, on the k-th of them too, and that entry is the same command    *)
(* object, never an earlier or later duplicate.                            *)
DuplicatesBefore(q, p) ==
    Cardinality({r \in 0..(p - 1) : CmdEq(At(q, r), At(q, p))})

ActsAt(d, q, p) ==
    IF d.op = "delete"
    THEN d.after[q] = RemoveAt(d.before[q], p)
    ELSE d.after[q] = SetAt(d.before[q], p, d.new)

SameOccurrence(d) ==
    \A q \in Qubits :
        Touches(d.cmd, q) =>
            \E p \in 0..(Len(d.before[q]) - 1) :
                /\ At(d.before[q], p).src = d.cmd.src
                /\ DuplicatesBefore(d.before[q], p) =
                       DuplicatesBefore(d.before[d.idx], d.pos)
                /\ ActsAt(d, q, p)

-----------------------------------------------------------------------------
(* C33: when receive() is given a command that is neither a flush nor      *)
(* fast-forwarding and that leaves the list of every qubit it touches      *)
(* shorter than m, it forwards nothing and optimizes nothing: the command  *)
(* is appended to the list of each qubit it touches and every other list   *)
(* stays as it was.                                                        *)
BelowThresholdStep ==
    /\ nIn' = nIn + 1
    /\ ~IsFlush(Ingested)
    /\ ~IsFastForwarding(Ingested.gate)
    /\ \A q \in Qubits : Touches(Ingested, q) => Len(l[q]) + 1 < m

OnlyAppended ==
    /\ exc' = "none"
    /\ out' = out
    /\ log' = log
    /\ opts' = opts
    /\ muts' = muts
    /\ edits' = edits
    /\ drains' = drains
    /\ searches' = searches
    /\ \A q \in Qubits :
          l'[q] = IF Touches(Ingested, q) THEN Append(l[q], Ingested)
                                          ELSE l[q]

C33_BelowThresholdOnlyAppends == [][BelowThresholdStep => OnlyAppended]_vars

\* two commands on one qubit that cancel or merge are buffered next to each
\* other, the last one just received, and nothing was forwarded or optimized
C33_PairStaysBuffered ==
    /\ exc = "none"
    /\ nIn >= 3
    /\ out = <<>>
    /\ opts = <<>>
    /\ \E q \in Qubits :
          /\ Len(l[q]) >= 2
          /\ Len(l[q]) < m
          /\ l[q][Len(l[q])] = inp[nIn]
          /\ HeadPair(l[q][Len(l[q]) - 1], l[q][Len(l[q])])

-----------------------------------------------------------------------------
(* C34: a call of _optimize(idx, lim) that returns has not removed,        *)
(* replaced or moved any entry at a position >= lim of the list of idx:    *)
(* the entries that stood at lim and behind it are the last entries of     *)
(* the list after the call, the same commands in the same order.           *)
TailOf(q, n) == SubSeq(q, Len(q) - n + 1, Len(q))

SuffixKept(d) ==
    /\ Len(d.before) - d.lim <= Len(d.after)
    /\ TailOf(d.after, Len(d.before) - d.lim) =
           TailOf(d.before, Len(d.before) - d.lim)

C34_OptimizeKeepsSuffix ==
    \A p \in 1..Len(opts) : SuffixKept(opts[p])

\* an _optimize of a drain removed two or more entries below its limit and
\* left two or more entries from the limit on
C34_EditedBelowLongSuffix ==
    /\ exc = "none"
    /\ \E p \in 1..Len(opts) :
          /\ Len(opts[p].before) - opts[p].lim >= 2
          /\ Len(opts[p].before) - Len(opts[p].after) >= 2

-----------------------------------------------------------------------------
(* C37: with m = 1 the optimizer passes everything through: receive()      *)
(* never fails, every command it was given has been forwarded when it      *)
(* returns, unchanged and in arrival order, nothing was cancelled, merged  *)
(* or deleted, and every list is empty.                                    *)
C37_WindowOnePassesThrough ==
    m = 1 =>
        /\ exc = "none"
        /\ out = inp
        /\ edits = <<>>
        /\ muts = <<>>
        /\ gone = <<>>
        /\ keys = <<>>
        /\ \A q \in Qubits : l[q] = <<>>

\* with m = 1 a command on two qubits and a pair on one qubit that cancels
\* or merges were passed on
C37_PassedPairThrough ==
    /\ m = 1
    /\ nIn >= 4
    /\ out = inp
    /\ \E k \in 1..nIn : Len(QubitIds(inp[k])) = 2
    /\ \E k \in 1..(nIn - 1) : HeadPair(inp[k], inp[k + 1])

-----------------------------------------------------------------------------
(* C38: the optimizer invents nothing: every command it has forwarded is   *)
(* a command it was given, or the result of get_merged applied, once or    *)
(* repeatedly, to commands it was given that act on the same qubits.       *)
RECURSIVE MergeResults(_)
MergeResults(S) ==
    IF Cardinality(S) = 1 THEN {inp[k].gate : k \in S}
    ELSE UNION {
            {GateMerged(g, h) :
                g \in {a \in MergeResults(T) :
                          \E b \in MergeResults(S \ T) : GateMergeable(a, b)},
                h \in MergeResults(S \ T)}
            : T \in (SUBSET S) \ {{}, S}}

Genuine(cmd) ==
    /\ cmd.src # {}
    /\ cmd.src \subseteq 1..nIn
    /\ \A k \in cmd.src : inp[k].all_qubits = cmd.all_qubits
    /\ cmd.gate \in MergeResults(cmd.src)

C38_NothingInvented == \A p \in 1..Len(out) : Genuine(out[p])

\* a command merged from three commands was forwarded behind a command
\* that was forwarded as it arrived
C38_ForwardedMergedCommand ==
    /\ exc = "none"
    /\ \E p \in 1..Len(out) : Cardinality(out[p].src) >= 3
    /\ \E p \in 1..Len(out) : ~IsFlush(out[p]) /\ Cardinality(out[p].src) = 1

-----------------------------------------------------------------------------
(* C40: when receive() has returned, a qubit is a key of self._l exactly   *)
(* when its list holds at least one command: no key has an empty list.     *)
IsKey(q) == q \in SeqToSet(keys)

C40_NoEmptyQueueKept ==
    Idle => \A q \in Qubits : IsKey(q) <=> l[q] # <<>>

\* the list of a qubit was emptied and its key dropped while another qubit
\* still has commands pending
C40_DroppedEmptiedKey ==
    /\ Idle
    /\ \E q \in Qubits :
          /\ ~IsKey(q)
          /\ \E p \in 1..Len(out) : ~IsFlush(out[p]) /\ Touches(out[p], q)
    /\ \E q \in Qubits : IsKey(q)
    /\ \A k \in 1..nIn : ~IsFlush(inp[k])

-----------------------------------------------------------------------------
(* C36: the recursive drain never comes back to a qubit whose drain is     *)
(* running: while _send_qubit_pipeline(r, n) runs, neither                 *)
(* _send_qubit_pipeline nor _optimize is called for r by the drains nested *)
(* in it, so the nesting is never deeper than the number of qubits.        *)
Running(d) == SeqToSet(d.active)

C36_DrainNeverReentered ==
    /\ exc # "RecursionError"
    /\ \A p \in 1..Len(drains) :
          /\ drains[p].idx \notin Running(drains[p])
          /\ Len(drains[p].active) < Cardinality(Qubits)
    /\ \A p \in 1..Len(opts) : opts[p].idx \notin Running(opts[p])

-----------------------------------------------------------------------------
(* C35: every call of _optimize terminates, by returning or by raising:    *)
(* followed pass by pass on any buffer, the call reaches its end, and      *)
(* every pass before that shrinks the scanned list, moves the scan         *)
(* position i or the offset x forward, goes on in the matching loop with a *)
(* larger y or starts the candidates over, or gives the search for this i  *)
(* up.                                                                     *)
ScanOver == scan.pc \in {"returned", "raised"}

\* where in the pass for i the call stands: at the head of the outer loop,
\* at the head of the inner loop, in the matching loop, or at the head of
\* the inner loop with the search given up
ScanPhase ==
    IF scan.pc = "outer" THEN 0
    ELSE IF scan.pc = "match" THEN 2
    ELSE IF scan.com THEN 1
    ELSE 3

ScanRank ==
    << -Len(l[scan.idx]), scan.i, IF scan.pc = "outer" THEN 0 ELSE scan.x,
       ScanPhase, scan.y, -scan.k >>

RECURSIVE Below(_, _, _)
Below(a, b, p) ==
    /\ p <= Len(a)
    /\ \/ a[p] < b[p]
       \/ a[p] = b[p] /\ Below(a, b, p + 1)

PassAdvances ==
    scan.pc \in {"outer", "inner", "match"}
        => ScanOver' \/ Below(ScanRank, ScanRank', 1)

C35_OptimizeTerminates == <>ScanOver /\ [][PassAdvances]_vars

\* a call has returned after it matched a commutable list and cancelled a
\* pair across it
C35_ReturnedAfterListAndEdit ==
    /\ scan.pc = "returned"
    /\ \E p \in 1..Len(searches) : searches[p].com
    /\ \E p \in 1..Len(edits) : edits[p].over >= 3

-----------------------------------------------------------------------------
(* C39: PasqalBackend stores the commands it receives in one circuit until *)
(* a flush, which runs the circuit and resets: every job submitted holds   *)
(* the gate operations stored since the flush before it, in the order      *)
(* received, and no other, and a flush with no gate operation stored since *)
(* the flush before it submits no job.                                     *)
GateMoments(moments) ==
    SelectSeq(moments, LAMBDA e : e.op # "MeasurementGate")

C39_FlushRunsTheProgramStored ==
    \A j \in 1..Len(backend.jobs) :
        /\ backend.jobs[j].program # <<>>
        /\ GateMoments(backend.jobs[j].moments) = backend.jobs[j].program

====
